---- MODULE Spec2Model ----
(***************************************************************************)
(* Model of js/script.js (Mdule-1/js/script.js is the guarded variant; the *)
(* form, lightbox and theme code of js/script.js is the same text).        *)
(*                                                                         *)
(* Strings are sequences of one-character strings, so that trim() and the  *)
(* email regular expression are computed character by character.           *)
(* Time is counted in ticks of TickMs milliseconds; a timer holds the      *)
(* number of ticks left before it is due.                                  *)
(***************************************************************************)
EXTENDS Integers, Sequences, FiniteSets, TLC

VARIABLES
    present,        \* ids/classes of the expected elements found in the markup
    phase,          \* "parsing" -> "evaluated" (script ran) -> "ready" (DOMContentLoaded ran)
    abortLine,      \* line of the top-level statement that threw, 0 if none
    listeners,      \* names of the event listeners registered so far
    value,          \* value of #name, #email, #message
    errorDivs,      \* per field: texts of the .error-message children of its parent
    borderColor,    \* per field: input.style.borderColor
    btnText,        \* submitBtn.textContent
    btnDisabled,    \* submitBtn.disabled
    formMessages,   \* .form-message children of the form, in document order
    timers,         \* pending setTimeout callbacks, in registration order
    submitCount,    \* number of submissions that passed validation so far
    markup,         \* classes and styles the markup carries before the script runs
    innerWidth,     \* window.innerWidth
    menuActive,     \* navMenu.classList.contains('active')
    hamburgerActive,\* hamburger.classList.contains('active')
    ariaExpanded,   \* the hamburger's aria-expanded attribute ("none": absent)
    bodyOverflow,   \* document.body.style.overflow
    lightboxDisplay,\* lightbox.style.display
    lightboxImg,    \* src and alt of #lightbox-img
    lightboxCaption,\* text of #lightbox-caption
    sections,       \* offsetTop and offsetHeight of the section[id] elements, in document order
    scrollY,        \* window.pageYOffset
    linkBg,         \* style.background of the nav links, one per section
    debounceLeft,   \* ticks left on the timer of debouncedHighlight, -1 when none is pending
    pointerCoarse,  \* window.matchMedia('(pointer: coarse)').matches
    over,           \* the registered interactive elements the pointer is over
    mouse,          \* <<mouseX, mouseY>>
    cursorPos,      \* left and top of the cursor element, in px
    cursorOpacity,  \* cursor.style.opacity
    cursorDisplay,  \* cursor.style.display
    cursorScale,    \* the scale factor in cursor.style.transform
    isHovering,     \* isHovering
    isCursorInitialized, \* isCursorInitialized
    bodyCursor,     \* document.body.style.cursor
    styleElements,  \* style elements initCursor appended to the head
    cursorInits,    \* runs of initCursor that registered listeners and started a frame loop
    resizePending,  \* whether the timer held in resizeTimeout is pending
    stored,         \* localStorage.getItem('theme')
    dataTheme,      \* the data-theme attribute of the document element
    themeIconText,  \* themeIcon.textContent
    markupImages,   \* the images as the markup has them
    images,         \* src and data-src of each image
    observedImages, \* the images imageObserver observes
    revealStyle,    \* opacity and transform of each observed section or card
    downloadText,   \* downloadBtn.textContent
    downloadDisabled, \* downloadBtn.disabled
    fetchPending,   \* the fetch in flight, with the originalText its handlers hold
    fetchCount,     \* calls of fetch so far
    alertCount,     \* calls of alert so far
    downloadCount,  \* downloads triggered so far
    hasHeader,      \* whether document.querySelector('header') finds an element
    headerHeight,   \* header.offsetHeight
    navScrolled,    \* nav.classList.contains('scrolled')
    windowLoaded,   \* whether the load event of the window has been dispatched
    focus,          \* document.activeElement
    scrollTarget,   \* <<top>> of the smooth scroll in progress, <<>> when none is
    debTimers,      \* debounce: the pending timers of the `later` callbacks
    debTimeout,     \* debounce: the timer id held in `timeout` (0: undefined)
    debCalls,       \* debounce: the arguments of the calls made so far
    debInvoked,     \* debounce: the arguments func has been invoked with so far
    debSince,       \* debounce: ticks since the last call, up to one past the wait
    ev              \* the event handled last: its type, the field or item it was on,
                    \* a flag (blur: the validator's result; submit: whether all
                    \* three validators returned true; other events: see the
                    \* action) and whether the handler called preventDefault()

loadVars == <<present, phase, abortLine, listeners>>
formVars == <<value, errorDivs, borderColor, btnText, btnDisabled,
              formMessages, timers, submitCount>>
pageVars == <<markup, innerWidth, menuActive, hamburgerActive, ariaExpanded,
              bodyOverflow, lightboxDisplay, lightboxImg, lightboxCaption>>
scrollVars == <<sections, scrollY, linkBg, debounceLeft>>
cursorVars == <<pointerCoarse, over, mouse, cursorPos, cursorOpacity, cursorDisplay,
                cursorScale, isHovering, isCursorInitialized, bodyCursor,
                styleElements, cursorInits, resizePending>>
themeVars == <<stored, dataTheme, themeIconText>>
observeVars == <<markupImages, images, observedImages, revealStyle>>
downloadVars == <<downloadText, downloadDisabled, fetchPending, fetchCount,
                  alertCount, downloadCount>>
navVars == <<hasHeader, headerHeight, navScrolled, windowLoaded, focus,
             scrollTarget>>
debVars == <<debTimers, debTimeout, debCalls, debInvoked, debSince>>
vars == <<present, phase, abortLine, listeners, value, errorDivs, borderColor,
          btnText, btnDisabled, formMessages, timers, submitCount,
          markup, innerWidth, menuActive, hamburgerActive, ariaExpanded,
          bodyOverflow, lightboxDisplay, lightboxImg, lightboxCaption,
          sections, scrollY, linkBg, debounceLeft,
          pointerCoarse, over, mouse, cursorPos, cursorOpacity, cursorDisplay,
          cursorScale, isHovering, isCursorInitialized, bodyCursor,
          styleElements, cursorInits, resizePending,
          stored, dataTheme, themeIconText,
          markupImages, images, observedImages, revealStyle,
          downloadText, downloadDisabled, fetchPending, fetchCount,
          alertCount, downloadCount,
          hasHeader, headerHeight, navScrolled, windowLoaded, focus,
          scrollTarget,
          debTimers, debTimeout, debCalls, debInvoked, debSince, ev>>

(***************************************************************************)
(* Bounds of the model.                                                    *)
(***************************************************************************)
MaxEmailLen == 6     \* longest email value drawn in SpecValidate
MaxNameLen == 4      \* longest name value drawn in SpecValidate
MaxMessageLen == 11  \* longest message value drawn in SpecValidate
MaxSubmits == 2      \* accepted submissions per behaviour of SpecForm
MaxGallery == 2      \* images in the gallery
MaxSections == 2     \* section[id] elements, each with its nav link
MaxTopSteps == 3     \* largest offsetTop of a section, in steps of 100 px
MaxScrollSteps == 4  \* largest scroll offset, in steps of 100 px
MaxWaitTicks == 2    \* ticks that make up the 10 ms wait of the debounce
MaxCoord == 2        \* largest pointer coordinate
MaxNesting == 2      \* deepest nesting of registered interactive elements
MaxInits == 2        \* runs of initCursor that take effect per behaviour
MaxDownloads == 3    \* clicks on the download control per behaviour
MaxImages == 2       \* images in the markup
MaxReveal == 2       \* sections and cards the reveal observer observes
MaxHeaderSteps == 2  \* largest header height, in steps of 100 px above the margin
MaxNavLinks == 3     \* in-page links of the nav
MaxCalls == 4        \* calls of the debounced function per behaviour

(***************************************************************************)
(* Strings.                                                                *)
(***************************************************************************)
Fields == {"name", "email", "message"}

\* The characters String.prototype.trim() strips and the regex class \s matches
\* (the two sets are the same in ECMAScript); two of them stand for all.
Whitespace == {" ", "\t"}

RECURSIVE TrimStart(_)
TrimStart(s) ==
    IF s # <<>> /\ Head(s) \in Whitespace THEN TrimStart(Tail(s)) ELSE s

RECURSIVE TrimEnd(_)
TrimEnd(s) ==
    IF s # <<>> /\ s[Len(s)] \in Whitespace
    THEN TrimEnd(SubSeq(s, 1, Len(s) - 1))
    ELSE s

\* Mutant: the value is tested as typed, trim() forgotten.
TrimNothing(s) == s

Trim(s) == TrimEnd(TrimStart(s))

\* s[a..b] is a non-empty run of [^\s@]
PlainRun(s, a, b) ==
    /\ a <= b
    /\ \A k \in a..b : s[k] \notin Whitespace /\ s[k] # "@"

\* Mutant: the pattern without its "." part, /^[^\s@]+@[^\s@]+$/.
EmailRegexNoDot(s) ==
    \E i \in 1..Len(s) :
        /\ s[i] = "@"
        /\ PlainRun(s, 1, i - 1)
        /\ PlainRun(s, i + 1, Len(s))

\* /^[^\s@]+@[^\s@]+\.[^\s@]+$/.test(s): some position i holds the "@" and some
\* later position j the "." that the pattern's literals are matched against.
EmailRegexTest(s) ==
    \E i \in 1..Len(s) : \E j \in 1..Len(s) :
        /\ i < j
        /\ s[i] = "@"
        /\ s[j] = "."
        /\ PlainRun(s, 1, i - 1)
        /\ PlainRun(s, i + 1, j - 1)
        /\ PlainRun(s, j + 1, Len(s))

NameMinLength == 2
MessageMinLength == 10

NameErrorText == "Name must be at least 2 characters long"
EmailErrorText == "Please enter a valid email address"
MessageErrorText == "Message must be at least 10 characters long"

\* The test each validateX function applies to its input's value.
FieldPasses(f, v) ==
    CASE f = "name" -> ~(Len(Trim(v)) < NameMinLength)
      [] f = "email" -> EmailRegexTest(Trim(v))
      [] f = "message" -> ~(Len(Trim(v)) < MessageMinLength)

ErrorText(f) ==
    CASE f = "name" -> NameErrorText
      [] f = "email" -> EmailErrorText
      [] f = "message" -> MessageErrorText

(***************************************************************************)
(* Page load: the top-level statements of the script, in source order.     *)
(***************************************************************************)
Elements ==
    {"customCursor", "hamburger", "navMenu", "scrollToTop", "lightbox",
     "lightbox-img", "lightbox-caption", "lightbox-close", "contactForm",
     "name", "email", "message", "themeToggle", "downloadReport"}

\* A top-level statement that registers listeners: `needs` are the elements it
\* dereferences without a check (a null one throws a TypeError), `guard` the
\* elements it tests with if (...) first, `adds` the listeners it registers.
Stmt(line, needs, guard, adds) ==
    [line |-> line, needs |-> needs, guard |-> guard, adds |-> adds]

Script ==
    << Stmt(117, {}, {}, {"DOMContentLoaded:initCursor"}),
       Stmt(125, {}, {}, {"resize:cursor"}),
       Stmt(164, {}, {}, {"scroll:handleNavScroll"}),
       Stmt(166, {}, {}, {"load:handleNavScroll"}),
       Stmt(204, {}, {"hamburger"}, {"hamburger.click", "hamburger.touchstart"}),
       Stmt(221, {}, {"navMenu"}, {"navMenu.click"}),
       Stmt(230, {}, {}, {"click:closeMenu"}),
       Stmt(239, {}, {}, {"resize:closeMenu"}),
       Stmt(249, {}, {}, {"DOMContentLoaded:closeMenu"}),
       Stmt(265, {}, {}, {"scroll:scrollToTop"}),
       Stmt(273, {"scrollToTop"}, {}, {"scrollToTop.click"}),
       Stmt(307, {}, {}, {"scroll:highlightActiveSection"}),
       Stmt(312, {}, {}, {"anchor.click"}),
       Stmt(346, {}, {}, {"observer"}),
       Stmt(362, {}, {}, {"galleryItem.click"}),
       Stmt(377, {"lightbox-close"}, {}, {"lightboxClose.click"}),
       Stmt(378, {"lightbox"}, {}, {"lightbox.click"}),
       Stmt(385, {}, {}, {"keydown:Escape"}),
       Stmt(400, {"name"}, {}, {"name.blur"}),
       Stmt(401, {"email"}, {}, {"email.blur"}),
       Stmt(402, {"message"}, {}, {"message.blur"}),
       Stmt(456, {"contactForm"}, {}, {"contactForm.submit"}),
       Stmt(569, {}, {}, {"imageObserver"}),
       Stmt(585, {}, {}, {"keydown:navArrows"}),
       Stmt(618, {}, {}, {"scroll:debouncedHighlight"}),
       Stmt(656, {}, {"themeToggle"}, {"themeToggle.click"}),
       Stmt(1096, {}, {}, {"DOMContentLoaded:download"}),
       Stmt(1109, {}, {}, {"DOMContentLoaded:init"}) >>

\* Evaluation of the statements from position k on with the elements `p`
\* present: an uncaught TypeError ends the evaluation of the whole script.
RECURSIVE RunScript(_, _, _)
RunScript(k, p, acc) ==
    IF k > Len(Script) THEN [listeners |-> acc, abortLine |-> 0]
    ELSE LET st == Script[k] IN
         IF ~(st.needs \subseteq p) THEN [listeners |-> acc, abortLine |-> st.line]
         ELSE IF ~(st.guard \subseteq p) THEN RunScript(k + 1, p, acc)
         ELSE RunScript(k + 1, p, acc \cup st.adds)

(***************************************************************************)
(* Contact form: inline errors, submission, banner.                        *)
(***************************************************************************)
SubmitDelayMs == 1500
BannerMs == 5000

RECURSIVE GCD(_, _)
GCD(a, b) == IF b = 0 THEN a ELSE GCD(b, a % b)

\* The longest tick in which both delays are a whole number of ticks.
TickMs == GCD(SubmitDelayMs, BannerMs)
SubmitDelayTicks == SubmitDelayMs \div TickMs
BannerTicks == BannerMs \div TickMs

\* The label the submit button carries in the markup.
SubmitLabel == "Send Message"
BusyLabel == "Sending..."
ErrorBorder == "#d32f2f"

Event(type, field, ok, prevented) ==
    [type |-> type, field |-> field, ok |-> ok, defaultPrevented |-> prevented]

\* clearError(input): removes the first .error-message child of the input's
\* parent and resets the border.  Each input sits in a container of its own,
\* so errorDivs[f] are the error elements next to input f.
ClearError(st, f) ==
    [st EXCEPT !.divs[f] = IF @ # <<>> THEN Tail(@) ELSE @,
               !.border[f] = ""]

\* Mutant: showError without its leading clearError(input).
ShowErrorNoClear(st, f, message) ==
    [st EXCEPT !.divs[f] = Append(@, message),
               !.border[f] = ErrorBorder]

\* showError(input, message)
ShowError(st, f, message) ==
    LET c == ClearError(st, f) IN
    [c EXCEPT !.divs[f] = Append(@, message),
              !.border[f] = ErrorBorder]

\* validateName / validateEmail / validateMessage on the display state st
\* (divs, border); st.valid[f] is the value the call returns.
Validate(st, f) ==
    IF ~FieldPasses(f, value[f])
    THEN [ShowError(st, f, ErrorText(f)) EXCEPT !.valid[f] = FALSE]
    ELSE [ClearError(st, f) EXCEPT !.valid[f] = TRUE]

Display ==
    [divs |-> errorDivs, border |-> borderColor, valid |-> [f \in Fields |-> "none"]]

\* Mutant: the validators chained with &&, so that the first failure stops
\* the evaluation.
ValidateAllShortCircuit(st) ==
    LET a == Validate(st, "name")
        b == Validate(a, "email")
    IN  IF ~a.valid["name"]
        THEN [a EXCEPT !.valid["email"] = FALSE, !.valid["message"] = FALSE]
        ELSE IF ~b.valid["email"]
        THEN [b EXCEPT !.valid["message"] = FALSE]
        ELSE Validate(b, "message")

\* Lines 460-462 of the submit handler: the three validators run one after
\* the other, each result kept in a constant, before any of them is tested.
ValidateAll(st) == Validate(Validate(Validate(st, "name"), "email"), "message")

\* Mutant: the test of line 464 written with && instead of ||.
AnyValid(st) == st.valid["name"] \/ st.valid["email"] \/ st.valid["message"]

\* The test of line 464, negated: every validator returned true.
AllValid(st) == st.valid["name"] /\ st.valid["email"] /\ st.valid["message"]

\* showFormMessage(type, message) on the form's .form-message children:
\* the first existing one is removed, the new one is appended.
ShowFormMessage(msgs, type, id) ==
    Append(IF msgs # <<>> THEN Tail(msgs) ELSE msgs,
           [id |-> id, type |-> type, age |-> 0])

\* Mutant: the simulated step fails.
SimulatedStepRejects == "rejected"

\* The promise awaited at line 476 is resolved by its timer and has no reject path.
SimulatedStep == "resolved"

Timer(kind, left, id, originalText) ==
    [kind |-> kind, left |-> left, id |-> id, originalText |-> originalText]

RemoveAt(seq, i) == SubSeq(seq, 1, i - 1) \o SubSeq(seq, i + 1, Len(seq))

\* Mutant: the timer removes whatever banner the form shows when it fires,
\* contactForm.querySelector('.form-message').remove().
WithoutFirst(msgs, id) == IF msgs # <<>> THEN Tail(msgs) ELSE msgs

\* messageDiv.remove() for the banner the timer's closure holds: a banner
\* that was replaced is no longer in the form, and nothing happens.
RECURSIVE WithoutId(_, _)
WithoutId(msgs, id) ==
    IF msgs = <<>> THEN <<>>
    ELSE IF Head(msgs).id = id THEN WithoutId(Tail(msgs), id)
    ELSE <<Head(msgs)>> \o WithoutId(Tail(msgs), id)

Due == {i \in 1..Len(timers) : timers[i].left = 0}

\* The user changes the content of a field; no listener is attached to it.
Input(f, v) ==
    /\ phase = "ready"
    /\ f \in present
    /\ value' = [value EXCEPT ![f] = v]
    /\ ev' = Event("input", "", TRUE, FALSE)
    /\ UNCHANGED <<navVars, debVars, loadVars, pageVars, scrollVars, cursorVars, themeVars, observeVars, downloadVars,
                   errorDivs, borderColor, btnText,
                   btnDisabled, formMessages, timers, submitCount>>

\* blur on a field: its validator runs (lines 400-402).
Blur(f) ==
    /\ phase = "ready"
    /\ (IF f = "name" THEN "name.blur"
        ELSE IF f = "email" THEN "email.blur" ELSE "message.blur") \in listeners
    /\ LET st == Validate(Display, f) IN
        /\ errorDivs' = st.divs
        /\ borderColor' = st.border
        /\ ev' = Event("blur", f, st.valid[f], FALSE)
    /\ UNCHANGED <<navVars, debVars, loadVars, pageVars, scrollVars, cursorVars, themeVars, observeVars, downloadVars,
                   value, btnText, btnDisabled, formMessages,
                   timers, submitCount>>

\* submit on the form, up to the await (lines 456-476).
Submit ==
    /\ phase = "ready"
    /\ "contactForm.submit" \in listeners
    /\ LET st == ValidateAll(Display) IN
        /\ errorDivs' = st.divs
        /\ borderColor' = st.border
        /\ IF ~AllValid(st)
           THEN /\ ev' = Event("submit", "", FALSE, TRUE)
                /\ UNCHANGED <<btnText, btnDisabled, timers, submitCount>>
           ELSE /\ submitCount < MaxSubmits
                /\ btnText' = BusyLabel
                /\ btnDisabled' = TRUE
                /\ timers' = Append(timers,
                       Timer("submit", SubmitDelayTicks, submitCount + 1, btnText))
                /\ submitCount' = submitCount + 1
                /\ ev' = Event("submit", "", TRUE, TRUE)
    /\ UNCHANGED <<navVars, debVars, loadVars, pageVars, scrollVars, cursorVars, themeVars, observeVars, downloadVars,
                   value, formMessages>>

\* The 1500 ms timer of a submission fires and the handler resumes after the
\* await (lines 476-486); showFormMessage starts the banner's 5 s timer.
SubmitDone ==
    /\ Due # {}
    /\ LET i == CHOOSE k \in Due : \A m \in Due : k <= m
           t == timers[i] IN
        /\ t.kind = "submit"
        /\ IF SimulatedStep = "resolved"
           THEN /\ formMessages' = ShowFormMessage(formMessages, "success", t.id)
                /\ value' = [f \in Fields |-> <<>>]
           ELSE /\ formMessages' = ShowFormMessage(formMessages, "error", t.id)
                /\ UNCHANGED value
        /\ timers' = Append(RemoveAt(timers, i), Timer("banner", BannerTicks, t.id, ""))
        /\ btnText' = t.originalText
        /\ btnDisabled' = FALSE
        /\ ev' = Event("submitDone", "", TRUE, FALSE)
    /\ UNCHANGED <<navVars, debVars, loadVars, pageVars, scrollVars, cursorVars, themeVars, observeVars, downloadVars,
                   errorDivs, borderColor, submitCount>>

\* The 5 s timer of a banner fires: messageDiv.remove() (lines 515-517).
BannerTimeout ==
    /\ Due # {}
    /\ LET i == CHOOSE k \in Due : \A m \in Due : k <= m
           t == timers[i] IN
        /\ t.kind = "banner"
        /\ formMessages' = WithoutId(formMessages, t.id)
        /\ timers' = RemoveAt(timers, i)
        /\ ev' = Event("bannerTimeout", "", TRUE, FALSE)
    /\ UNCHANGED <<navVars, debVars, loadVars, pageVars, scrollVars, cursorVars, themeVars, observeVars, downloadVars,
                   value, errorDivs, borderColor, btnText,
                   btnDisabled, submitCount>>

\* TickMs milliseconds pass; a timer that is due runs before time moves on.
Tick ==
    /\ timers # <<>>
    /\ Due = {}
    /\ timers' = [i \in 1..Len(timers) |-> [timers[i] EXCEPT !.left = @ - 1]]
    /\ formMessages' = [i \in 1..Len(formMessages) |->
           [formMessages[i] EXCEPT !.age = IF @ > BannerTicks THEN @ ELSE @ + 1]]
    /\ ev' = Event("tick", "", TRUE, FALSE)
    /\ UNCHANGED <<navVars, debVars, loadVars, pageVars, scrollVars, cursorVars, themeVars, observeVars, downloadVars,
                   value, errorDivs, borderColor, btnText,
                   btnDisabled, submitCount>>

(***************************************************************************)
(* Hamburger menu and gallery lightbox.                                    *)
(***************************************************************************)
MobileBreakpoint == 768

\* The viewport widths told apart by the test of line 240.
Widths == {MobileBreakpoint, MobileBreakpoint + 1}

\* The images of the gallery: src and alt of the i-th .gallery-item img and
\* the text of the .gallery-caption of its gallery item.
GalleryItems == 1..MaxGallery
Gallery(i) ==
    [src |-> <<"src", i>>, alt |-> <<"alt", i>>, caption |-> <<"caption", i>>]

NoImage == [src |-> <<>>, alt |-> <<>>]

\* What the markup may carry before the script runs.
Markups ==
    [menuActive : BOOLEAN, hamburgerActive : BOOLEAN,
     ariaExpanded : {"none", "false", "true"}, bodyOverflow : {"", "hidden"}]

\* Markup without a persisted class.
CleanMarkup ==
    [menuActive |-> FALSE, hamburgerActive |-> FALSE, ariaExpanded |-> "false",
     bodyOverflow |-> ""]

\* The menu and lightbox state the handlers below read and write.
PageState ==
    [menu |-> menuActive, hamburger |-> hamburgerActive, aria |-> ariaExpanded,
     overflow |-> bodyOverflow, display |-> lightboxDisplay,
     img |-> lightboxImg, caption |-> lightboxCaption]

SetPage(st) ==
    /\ menuActive' = st.menu
    /\ hamburgerActive' = st.hamburger
    /\ ariaExpanded' = st.aria
    /\ bodyOverflow' = st.overflow
    /\ lightboxDisplay' = st.display
    /\ lightboxImg' = st.img
    /\ lightboxCaption' = st.caption

\* Mutant: the reset leaves the hamburger as the markup has it.
ResetMenuOnly(st, p) ==
    [st EXCEPT !.menu = IF "navMenu" \in p THEN FALSE ELSE @]

\* The statements that close the menu (lines 175-181, 250-256), each under
\* the test of its element.
ResetMenu(st, p) ==
    [st EXCEPT !.menu = IF "navMenu" \in p THEN FALSE ELSE @,
               !.hamburger = IF "hamburger" \in p THEN FALSE ELSE @,
               !.aria = IF "hamburger" \in p THEN "false" ELSE @]

\* The DOMContentLoaded listener of lines 249-258.
MenuDomReady(st, p) == [ResetMenu(st, p) EXCEPT !.overflow = ""]

\* toggleMobileMenu()
ToggleMobileMenu(st) ==
    IF ~({"hamburger", "navMenu"} \subseteq present) THEN st
    ELSE IF st.menu
    THEN [st EXCEPT !.menu = FALSE, !.hamburger = FALSE, !.aria = "false",
                    !.overflow = ""]
    ELSE [st EXCEPT !.menu = TRUE, !.hamburger = TRUE, !.aria = "true",
                    !.overflow = "hidden"]

\* The navMenu click listener (lines 222-226) for a click on a link.
NavMenuClick(st) ==
    IF "navMenu.click" \in listeners THEN ToggleMobileMenu(st) ELSE st

\* The document click listener (lines 230-236); `inside` says whether the
\* target is within the menu or the hamburger.
DocumentClick(st, inside) ==
    IF /\ "click:closeMenu" \in listeners
       /\ {"hamburger", "navMenu"} \subseteq present
       /\ st.menu
       /\ ~inside
    THEN ToggleMobileMenu(st) ELSE st

\* The resize listener (lines 239-246) at width w.
ResizeMenu(st, w) ==
    IF /\ "resize:closeMenu" \in listeners
       /\ w > MobileBreakpoint
       /\ "navMenu" \in present
       /\ st.menu
    THEN [st EXCEPT !.menu = FALSE, !.hamburger = FALSE, !.aria = "false",
                    !.overflow = ""]
    ELSE st

\* Mutant: the caption is looked up in the document, not in the gallery item
\* of the image, document.querySelector('.gallery-caption').
OpenLightboxFirstCaption(st, i) ==
    [st EXCEPT !.img = [src |-> Gallery(i).src, alt |-> Gallery(i).alt],
               !.caption = Gallery(1).caption,
               !.display = "flex",
               !.overflow = "hidden"]

\* The click listener of gallery image i (lines 363-369).
OpenLightbox(st, i) ==
    [st EXCEPT !.img = [src |-> Gallery(i).src, alt |-> Gallery(i).alt],
               !.caption = Gallery(i).caption,
               !.display = "flex",
               !.overflow = "hidden"]

\* closeLightbox()
CloseLightbox(st) == [st EXCEPT !.display = "none", !.overflow = ""]

PageUnchanged ==
    UNCHANGED <<navVars, debVars, loadVars, formVars, scrollVars, themeVars, observeVars,
                downloadVars, markup>>

\* click or touchstart on the hamburger: the listener stops the propagation,
\* so the document listener does not see the event.  The flag of the event
\* tells whether the lightbox was open.
HamburgerClick ==
    /\ phase = "ready"
    /\ "hamburger.click" \in listeners
    /\ SetPage(ToggleMobileMenu(PageState))
    /\ ev' = Event("hamburgerClick", "", lightboxDisplay = "flex", FALSE)
    /\ UNCHANGED <<innerWidth, cursorVars>>
    /\ PageUnchanged

\* click on a link of the menu, which the user can reach when the menu is
\* open or the viewport is wide enough for the nav bar to show its links: the
\* navMenu listener runs, then the document listener.  The flag tells whether
\* the menu was open.
NavLinkClick ==
    /\ phase = "ready"
    /\ menuActive \/ innerWidth > MobileBreakpoint
    /\ SetPage(DocumentClick(NavMenuClick(PageState), TRUE))
    /\ ev' = Event("navLinkClick", "", menuActive, FALSE)
    /\ UNCHANGED <<innerWidth, cursorVars>>
    /\ PageUnchanged

\* click on the page outside the menu, the hamburger, the gallery and the
\* lightbox.  The flag tells whether the menu was open.
OutsideClick ==
    /\ phase = "ready"
    /\ SetPage(DocumentClick(PageState, FALSE))
    /\ ev' = Event("outsideClick", "", menuActive, FALSE)
    /\ UNCHANGED <<innerWidth, cursorVars>>
    /\ PageUnchanged

\* The window is resized to width w: the listener of lines 125-141 restarts
\* its timer, the listener of lines 239-246 closes the menu.  The flag tells
\* whether the lightbox was open with the scroll locked.
Resize(w) ==
    /\ phase = "ready"
    /\ innerWidth' = w
    /\ SetPage(ResizeMenu(PageState, w))
    /\ resizePending' = IF "resize:cursor" \in listeners THEN TRUE
                        ELSE resizePending
    /\ ev' = Event("resize", "",
                   lightboxDisplay = "flex" /\ bodyOverflow = "hidden", FALSE)
    /\ UNCHANGED <<pointerCoarse, over, mouse, cursorPos, cursorOpacity,
                   cursorDisplay, cursorScale, isHovering, isCursorInitialized,
                   bodyCursor, styleElements, cursorInits>>
    /\ PageUnchanged

\* click on gallery image i while the full-screen overlay does not cover it:
\* its listener runs, then the event bubbles to the document listener.  The flag tells whether the overlay was showing another
\* image.
GalleryClick(i) ==
    /\ phase = "ready"
    /\ "galleryItem.click" \in listeners
    /\ lightboxDisplay # "flex"
    /\ SetPage(DocumentClick(OpenLightbox(PageState, i), FALSE))
    /\ ev' = Event("galleryClick", i,
                   lightboxImg # NoImage /\ lightboxImg.src # Gallery(i).src, FALSE)
    /\ UNCHANGED <<innerWidth, cursorVars>>
    /\ PageUnchanged

\* click on the close control of the open overlay: closeLightbox runs, the
\* lightbox listener sees a target other than the lightbox, and the event
\* reaches the document listener.  In the lightbox events the flag tells
\* whether the scroll was locked.
LightboxCloseClick ==
    /\ phase = "ready"
    /\ lightboxDisplay = "flex"
    /\ "lightboxClose.click" \in listeners
    /\ SetPage(DocumentClick(CloseLightbox(PageState), FALSE))
    /\ ev' = Event("lightboxCloseClick", "", bodyOverflow = "hidden", FALSE)
    /\ UNCHANGED <<innerWidth, cursorVars>>
    /\ PageUnchanged

\* click on the backdrop of the open overlay: e.target === lightbox.
BackdropClick ==
    /\ phase = "ready"
    /\ lightboxDisplay = "flex"
    /\ "lightbox.click" \in listeners
    /\ SetPage(DocumentClick(CloseLightbox(PageState), FALSE))
    /\ ev' = Event("backdropClick", "", bodyOverflow = "hidden", FALSE)
    /\ UNCHANGED <<innerWidth, cursorVars>>
    /\ PageUnchanged

\* click on the image or the caption of the open overlay: the lightbox
\* listener does nothing, and the event reaches the document listener.
LightboxContentClick ==
    /\ phase = "ready"
    /\ lightboxDisplay = "flex"
    /\ SetPage(DocumentClick(PageState, FALSE))
    /\ ev' = Event("lightboxContentClick", "", bodyOverflow = "hidden", FALSE)
    /\ UNCHANGED <<innerWidth, cursorVars>>
    /\ PageUnchanged

\* Mutant: the listener closes the lightbox on every Escape key press.
EscapeAlwaysCloses(st) == CloseLightbox(st)

\* The keydown listener of lines 385-389 for the key Escape.
EscapeKeydown(st) ==
    IF st.display = "flex" THEN CloseLightbox(st) ELSE st

\* keydown with key Escape.  The flag tells whether the overlay was shown.
KeyEscape ==
    /\ phase = "ready"
    /\ "keydown:Escape" \in listeners
    /\ SetPage(EscapeKeydown(PageState))
    /\ ev' = Event("keyEscape", "", lightboxDisplay = "flex", FALSE)
    /\ UNCHANGED <<innerWidth, cursorVars>>
    /\ PageUnchanged

(***************************************************************************)
(* Active-section highlighting on scroll.                                  *)
(***************************************************************************)
HighlightOffset == 100
DebounceWaitMs == 10
Teal == "var(--teal)"

\* Offsets and heights are whole multiples of the 100 px that line 293
\* subtracts, so that a scroll offset can sit on either end of a span.
Tops == {HighlightOffset * k : k \in 1..MaxTopSteps}
Heights == {HighlightOffset, 2 * HighlightOffset}
Offsets == {HighlightOffset * k : k \in 0..MaxScrollSteps}

\* The section[id] elements in document order, each with the nav link whose
\* href names it.
Geometries == [1..MaxSections -> [top : Tops, height : Heights]]

DefaultSections ==
    [i \in 1..MaxSections |->
        [top |-> HighlightOffset * (2 * i - 1), height |-> 2 * HighlightOffset]]

\* The test of line 296 for section sec at offset y.
InSection(sec, y) ==
    LET sectionTop == sec.top - HighlightOffset IN
    y > sectionTop /\ y <= sectionTop + sec.height

\* Mutant: a matching section marks its link without clearing the others.
RECURSIVE HighlightNoClear(_, _, _, _)
HighlightNoClear(k, secs, y, bg) ==
    IF k > Len(secs) THEN bg
    ELSE HighlightNoClear(k + 1, secs, y,
             IF InSection(secs[k], y) THEN [bg EXCEPT ![k] = Teal] ELSE bg)

\* highlightActiveSection(): sections.forEach from section k on.
RECURSIVE HighlightFrom(_, _, _, _)
HighlightFrom(k, secs, y, bg) ==
    IF k > Len(secs) THEN bg
    ELSE HighlightFrom(k + 1, secs, y,
             IF InSection(secs[k], y)
             THEN [j \in DOMAIN bg |-> IF j = k THEN Teal ELSE ""]
             ELSE bg)

HighlightActiveSection(y) == HighlightFrom(1, sections, y, linkBg)

\* The distance from the header's lower edge at which the nav bar changes.
ScrolledMargin == 50

\* Mutant: the nav bar changes at the threshold itself.
HandleNavScrollInclusive(scrolled, has, height, y) ==
    IF ~has THEN scrolled ELSE y >= height - ScrolledMargin

\* handleNavScroll() (lines 149-161) at offset y: whether the nav bar has
\* the class 'scrolled' after the call.  The page has its nav element, in
\* which the links of line 286 are; the header may be missing.
HandleNavScroll(scrolled, has, height, y) ==
    IF ~has THEN scrolled ELSE y > height - ScrolledMargin

\* The dispatch of a scroll event at offset y: the listener of line 164 runs
\* handleNavScroll, the listener of line 307 runs highlightActiveSection,
\* the listener of line 618 restarts the timer of debouncedHighlight.  The
\* event records whether it came while that timer was pending, and whether
\* highlightActiveSection ran during its dispatch.
ScrollEvent(y) ==
    /\ scrollY' = y
    /\ navScrolled' = IF "scroll:handleNavScroll" \in listeners
                      THEN HandleNavScroll(navScrolled, hasHeader, headerHeight, y)
                      ELSE navScrolled
    /\ linkBg' = IF "scroll:highlightActiveSection" \in listeners
                 THEN HighlightActiveSection(y) ELSE linkBg
    /\ debounceLeft' = IF "scroll:debouncedHighlight" \in listeners
                       THEN MaxWaitTicks ELSE debounceLeft
    /\ ev' = Event("scroll", IF debounceLeft >= 0 THEN "burst" ELSE "first",
                   "scroll:highlightActiveSection" \in listeners, FALSE)

\* The user scrolls the page to offset y.
Scroll(y) ==
    /\ phase = "ready"
    /\ y # scrollY
    /\ ScrollEvent(y)
    /\ UNCHANGED <<debVars, loadVars, formVars, pageVars, cursorVars, themeVars,
                   observeVars, downloadVars, sections, hasHeader, headerHeight,
                   windowLoaded, focus, scrollTarget>>

\* One tick of the debounce wait passes without a scroll event.
ScrollTick ==
    /\ debounceLeft > 0
    /\ debounceLeft' = debounceLeft - 1
    /\ ev' = Event("scrollTick", "", TRUE, FALSE)
    /\ UNCHANGED <<navVars, debVars, loadVars, formVars, pageVars, cursorVars, themeVars, observeVars, downloadVars,
                   sections, scrollY, linkBg>>

\* The timer of debouncedHighlight fires (lines 606-609).
DebouncedHighlight ==
    /\ debounceLeft = 0
    /\ debounceLeft' = -1
    /\ linkBg' = HighlightActiveSection(scrollY)
    /\ ev' = Event("debouncedHighlight", "", TRUE, FALSE)
    /\ UNCHANGED <<navVars, debVars, loadVars, formVars, pageVars, cursorVars, themeVars, observeVars, downloadVars,
                   sections, scrollY>>

(***************************************************************************)
(* Nav bar state at load, smooth scrolling and keyboard navigation.        *)
(***************************************************************************)
\* Header heights that put the threshold of handleNavScroll on a scroll
\* offset, and a header lower than the margin.
HeaderHeights ==
    {0} \cup {ScrolledMargin + HighlightOffset * k : k \in 0..MaxHeaderSteps}

DefaultHeaderHeight == ScrolledMargin + HighlightOffset

\* The load event of the window: the listener of line 166 runs
\* handleNavScroll.
WindowLoad ==
    /\ phase = "ready"
    /\ ~windowLoaded
    /\ windowLoaded' = TRUE
    /\ navScrolled' = IF "load:handleNavScroll" \in listeners
                      THEN HandleNavScroll(navScrolled, hasHeader, headerHeight,
                                           scrollY)
                      ELSE navScrolled
    /\ ev' = Event("load", "", TRUE, FALSE)
    /\ UNCHANGED <<debVars, loadVars, formVars, pageVars, scrollVars, cursorVars,
                   themeVars, observeVars, downloadVars, hasHeader, headerHeight,
                   focus, scrollTarget>>

\* The elements that can hold the focus: the in-page nav links
\* (navLinks, index 0 to N-1), an anchor inside the nav whose href does not
\* start with "#" (navLinks.indexOf gives -1), a button inside the nav, an
\* in-page anchor outside the nav, and the body.
NavLinkCount == MaxNavLinks
Element(tagName, inNav, index) ==
    [tagName |-> tagName, inNav |-> inNav, index |-> index]
NavLink(i) == Element("A", TRUE, i)
NavLinks == {NavLink(i) : i \in 0..(NavLinkCount - 1)}
NavOtherAnchor == Element("A", TRUE, -1)
NavButton == Element("BUTTON", TRUE, -1)
PageAnchor == Element("A", FALSE, -1)
Body == Element("BODY", FALSE, -1)
Focusable == NavLinks \cup {NavOtherAnchor, NavButton, PageAnchor, Body}

\* The in-page anchors, a[href^="#"].
InPageAnchors == NavLinks \cup {PageAnchor}

\* What the href of an in-page anchor names: section t (1..MaxSections), no
\* element of the document (NoTarget), or nothing that is a selector, as
\* href="#" (BadSelector: document.querySelector throws a SyntaxError).
NoTarget == 0
BadSelector == -1
TargetKinds == {BadSelector, NoTarget} \cup (1..MaxSections)

\* The allowance for the sticky nav bar (line 317).
AnchorOffset == 80

\* Mutant: the default is suppressed only when a scroll is requested.
AnchorOnClickPreventsLate(t) ==
    [prevented |-> t # BadSelector /\ t # NoTarget,
     request |-> IF t # BadSelector /\ t # NoTarget
                 THEN <<sections[t].top - AnchorOffset>> ELSE <<>>,
     blurred |-> t # BadSelector]

\* The click listener of an in-page anchor (lines 313-325) whose href names
\* t: whether preventDefault() was called, the top passed to window.scrollTo
\* (<<>>: no call) and whether this.blur() was reached.
AnchorOnClick(t) ==
    [prevented |-> TRUE,
     request |-> IF t # BadSelector /\ t # NoTarget
                 THEN <<sections[t].top - AnchorOffset>> ELSE <<>>,
     blurred |-> t # BadSelector]

\* A click on the in-page anchor a whose href names t.  The click gives the
\* anchor the focus before its listener runs.
AnchorClick(a, t) ==
    /\ phase = "ready"
    /\ "anchor.click" \in listeners
    /\ LET r == AnchorOnClick(t) IN
        /\ scrollTarget' = IF r.request # <<>> THEN r.request ELSE scrollTarget
        /\ focus' = IF r.blurred THEN Body ELSE a
        /\ ev' = Event("anchorClick", <<a, t>>, r.request # <<>>, r.prevented)
    /\ UNCHANGED <<debVars, loadVars, formVars, pageVars, scrollVars, cursorVars,
                   themeVars, observeVars, downloadVars, hasHeader, headerHeight,
                   navScrolled, windowLoaded>>

\* The offset at which a scroll to `top` ends: the page does not scroll
\* above its start.
ClampTop(top) == IF top < 0 THEN 0 ELSE top

\* The smooth scroll that window.scrollTo started arrives at its offset; a
\* scroll event is dispatched if the offset changed.
SmoothScrollEnds ==
    /\ phase = "ready"
    /\ scrollTarget # <<>>
    /\ scrollTarget' = <<>>
    /\ LET y == ClampTop(scrollTarget[1]) IN
        IF y # scrollY THEN ScrollEvent(y)
        ELSE /\ UNCHANGED <<scrollY, navScrolled, linkBg, debounceLeft>>
             /\ ev' = Event("smoothScrollEnd", "", TRUE, FALSE)
    /\ UNCHANGED <<debVars, loadVars, formVars, pageVars, cursorVars, themeVars,
                   observeVars, downloadVars, sections, hasHeader, headerHeight,
                   windowLoaded, focus>>

\* The user moves the focus to element e (Tab, or a click on it).
FocusTo(e) ==
    /\ phase = "ready"
    /\ e # focus
    /\ focus' = e
    /\ ev' = Event("focus", "", TRUE, FALSE)
    /\ UNCHANGED <<debVars, loadVars, formVars, pageVars, scrollVars, cursorVars,
                   themeVars, observeVars, downloadVars, hasHeader, headerHeight,
                   navScrolled, windowLoaded, scrollTarget>>

ArrowKeys == {"ArrowDown", "ArrowUp"}

\* The keydown listener of lines 585-599 with the focus on `active`:
\* whether preventDefault() was called and the element focused afterwards.
NavKeydown(active, key) ==
    IF active.tagName = "A" /\ active.inNav
    THEN LET currentIndex == active.index IN
         IF key = "ArrowDown" /\ currentIndex < NavLinkCount - 1
         THEN [prevented |-> TRUE, focus |-> NavLink(currentIndex + 1)]
         ELSE IF key = "ArrowUp" /\ currentIndex > 0
         THEN [prevented |-> TRUE, focus |-> NavLink(currentIndex - 1)]
         ELSE [prevented |-> FALSE, focus |-> active]
    ELSE [prevented |-> FALSE, focus |-> active]

\* keydown with an arrow key.  The flag tells whether the focus was on one
\* of the in-page nav links.
KeyArrow(key) ==
    /\ phase = "ready"
    /\ "keydown:navArrows" \in listeners
    /\ LET r == NavKeydown(focus, key) IN
        /\ focus' = r.focus
        /\ ev' = Event("keydown", key, focus \in NavLinks, r.prevented)
    /\ UNCHANGED <<debVars, loadVars, formVars, pageVars, scrollVars, cursorVars,
                   themeVars, observeVars, downloadVars, hasHeader, headerHeight,
                   navScrolled, windowLoaded, scrollTarget>>

(***************************************************************************)
(* debounce(func, wait), with a func that records its arguments.           *)
(***************************************************************************)
\* The arguments a call is made with.
CallArgs == {"a", "b"}

DebounceState ==
    [timers |-> debTimers, timeout |-> debTimeout, invoked |-> debInvoked]

SetDebounce(d) ==
    /\ debTimers' = d.timers
    /\ debTimeout' = d.timeout
    /\ debInvoked' = d.invoked

\* clearTimeout(id): an id that names no pending timer changes nothing.
RECURSIVE ClearTimeout(_, _)
ClearTimeout(ts, id) ==
    IF ts = <<>> THEN <<>>
    ELSE IF Head(ts).id = id THEN ClearTimeout(Tail(ts), id)
    ELSE <<Head(ts)>> \o ClearTimeout(Tail(ts), id)

\* Mutant: executedFunction without its clearTimeout(timeout).
ExecutedFunctionNoClear(d, id, args) ==
    [d EXCEPT !.timers = Append(@, [id |-> id, left |-> MaxWaitTicks, args |-> args]),
              !.timeout = id]

\* executedFunction(...args) (lines 606-613): the pending timer is cleared
\* and a timer for `later`, which holds args, is set; id is the id that
\* setTimeout returns.
ExecutedFunction(d, id, args) ==
    [d EXCEPT !.timers = Append(ClearTimeout(@, d.timeout),
                                [id |-> id, left |-> MaxWaitTicks, args |-> args]),
              !.timeout = id]

\* later() of the timer t that fired (lines 607-610).
Later(d, t) ==
    [d EXCEPT !.timers = ClearTimeout(ClearTimeout(@, t.id), d.timeout),
              !.invoked = Append(@, t.args)]

DebounceDue == {i \in 1..Len(debTimers) : debTimers[i].left = 0}

DebounceUnchanged ==
    UNCHANGED <<navVars, loadVars, formVars, pageVars, scrollVars, cursorVars,
                themeVars, observeVars, downloadVars>>

\* A call of the debounced function.  The flag tells whether the call came
\* more than the wait after the call before it.
DebouncedCall(args) ==
    /\ Len(debCalls) < MaxCalls
    /\ SetDebounce(ExecutedFunction(DebounceState, Len(debCalls) + 1, args))
    /\ debCalls' = Append(debCalls, args)
    /\ debSince' = 0
    /\ ev' = Event("debouncedCall", args, debCalls # <<>> /\ debSince > MaxWaitTicks,
                   FALSE)
    /\ DebounceUnchanged

\* One tick passes; a timer that is due runs before time moves on.
DebounceTick ==
    /\ debCalls # <<>>
    /\ DebounceDue = {}
    /\ debSince <= MaxWaitTicks
    /\ debTimers' = [i \in 1..Len(debTimers) |->
                        [debTimers[i] EXCEPT !.left = @ - 1]]
    /\ debSince' = debSince + 1
    /\ ev' = Event("debounceTick", "", TRUE, FALSE)
    /\ UNCHANGED <<debTimeout, debCalls, debInvoked>>
    /\ DebounceUnchanged

\* The timer that is due fires.  The event carries the ticks since the last
\* call.
DebounceLater ==
    /\ DebounceDue # {}
    /\ LET i == CHOOSE k \in DebounceDue : \A m \in DebounceDue : k <= m IN
        SetDebounce(Later(DebounceState, debTimers[i]))
    /\ ev' = Event("later", debSince, TRUE, FALSE)
    /\ UNCHANGED <<debCalls, debSince>>
    /\ DebounceUnchanged

(***************************************************************************)
(* Custom cursor.                                                          *)
(***************************************************************************)
\* Pointer positions <<clientX, clientY>>.
Points == {<<k, MaxCoord - k>> : k \in 0..MaxCoord}

\* Where initCursor parks the cursor element (lines 31-32).
OffScreen == <<-100, -100>>

\* Mutant: the variant without the guard of lines 15-20 and 128.
IsMobileNever(w, coarse) == FALSE

\* isMobile of lines 15 and 128.
IsMobile(w, coarse) == w <= MobileBreakpoint \/ coarse

\* The cursor's module-level variables and the styles the code writes.
CursorState ==
    [mouse |-> mouse, pos |-> cursorPos, opacity |-> cursorOpacity,
     display |-> cursorDisplay, scale |-> cursorScale, hovering |-> isHovering,
     initialized |-> isCursorInitialized, bodyCursor |-> bodyCursor,
     styles |-> styleElements, inits |-> cursorInits]

SetCursor(c) ==
    /\ mouse' = c.mouse
    /\ cursorPos' = c.pos
    /\ cursorOpacity' = c.opacity
    /\ cursorDisplay' = c.display
    /\ cursorScale' = c.scale
    /\ isHovering' = c.hovering
    /\ isCursorInitialized' = c.initialized
    /\ bodyCursor' = c.bodyCursor
    /\ styleElements' = c.styles
    /\ cursorInits' = c.inits

\* Mutant: the cursor eases towards the pointer, half the distance a frame.
UpdateCursorEased(c) ==
    [c EXCEPT !.pos = IF c.pos = <<>> THEN c.mouse
                      ELSE <<c.pos[1] + (c.mouse[1] - c.pos[1]) \div 2,
                             c.pos[2] + (c.mouse[2] - c.pos[2]) \div 2>>,
              !.scale = IF c.hovering THEN "1.5" ELSE "1"]

\* One run of updateCursor (lines 76-89), without the request for the next
\* frame.
UpdateCursor(c) ==
    [c EXCEPT !.pos = c.mouse,
              !.scale = IF c.hovering THEN "1.5" ELSE "1"]

\* initCursor() at width w with the elements p present: lines 15-27 return
\* before anything is written; otherwise the cursor is parked and made
\* transparent, the platform cursor is hidden, a style element is appended,
\* the listeners are registered and the first run of updateCursor starts a
\* frame loop.
InitCursor(c, w, coarse, p) ==
    IF IsMobile(w, coarse) \/ "customCursor" \notin p THEN c
    ELSE UpdateCursor([c EXCEPT !.opacity = "0",
                                !.pos = OffScreen,
                                !.bodyCursor = "none",
                                !.styles = @ + 1,
                                !.inits = @ + 1])

\* The listeners a run of initCursor registers.
CursorListeners(w, coarse, p) ==
    IF IsMobile(w, coarse) \/ "customCursor" \notin p THEN {}
    ELSE {"mousemove:cursor", "cursor.frameLoop"}

\* handleMouseMove(e) (lines 59-68).
HandleMouseMove(c, pt) ==
    [c EXCEPT !.mouse = pt,
              !.opacity = IF ~c.initialized THEN "1" ELSE @,
              !.initialized = TRUE]

\* The mouseenter and mouseleave events fired when the pointer goes from
\* nesting depth `from` to depth `to` of registered elements: the events do
\* not bubble, each element left or entered gets its own, the innermost
\* element is left first and entered last.
HoverEvents(from, to) ==
    IF to > from THEN [k \in 1..(to - from) |-> "mouseenter"]
    ELSE [k \in 1..(from - to) |-> "mouseleave"]

\* The listeners of lines 106-111 run for the events es, in order.
RECURSIVE ApplyHover(_, _)
ApplyHover(h, es) ==
    IF es = <<>> THEN h
    ELSE ApplyHover(Head(es) = "mouseenter", Tail(es))

CursorUnchanged ==
    UNCHANGED <<navVars, debVars, loadVars, formVars, pageVars, scrollVars, themeVars,
                observeVars, downloadVars, pointerCoarse>>

\* mousemove at point pt: the document and the window listener both run
\* handleMouseMove.  The flag tells whether the event before was a mousemove
\* too.
MouseMove(pt) ==
    /\ phase = "ready"
    /\ SetCursor(IF cursorInits > 0
                 THEN HandleMouseMove(HandleMouseMove(CursorState, pt), pt)
                 ELSE CursorState)
    /\ ev' = Event("mousemove", pt, ev.type = "mousemove", FALSE)
    /\ UNCHANGED <<over, resizePending>>
    /\ CursorUnchanged

\* The pointer goes to nesting depth k of registered interactive elements
\* (0: over none of them).
PointerTo(k) ==
    /\ phase = "ready"
    /\ k # over
    /\ over' = k
    /\ SetCursor([CursorState EXCEPT !.hovering =
           IF cursorInits > 0 THEN ApplyHover(@, HoverEvents(over, k)) ELSE @])
    /\ ev' = Event("pointerTo", k, TRUE, FALSE)
    /\ UNCHANGED resizePending
    /\ CursorUnchanged

\* An animation frame: the callback a running loop requested runs.  The
\* event carries the point of the mousemove that came right before it
\* (<<>> when another event did) and whether two or more mousemove events
\* came before it in a row.
Frame ==
    /\ phase = "ready"
    /\ cursorInits > 0
    /\ SetCursor(UpdateCursor(CursorState))
    /\ ev' = Event("frame", IF ev.type = "mousemove" THEN ev.field ELSE <<>>,
                   ev.type = "mousemove" /\ ev.ok, FALSE)
    /\ UNCHANGED <<over, resizePending>>
    /\ CursorUnchanged

\* The timer of the resize listener fires (lines 127-140).  The flag tells
\* whether the cursor was hidden by an earlier run.
ResizeTimeout ==
    /\ resizePending
    /\ resizePending' = FALSE
    /\ LET isMobile == IsMobile(innerWidth, pointerCoarse)
           cursorElement == "customCursor" \in present
       IN  IF isMobile /\ cursorElement
           THEN /\ SetCursor([CursorState EXCEPT !.display = "none",
                                                  !.bodyCursor = ""])
                /\ UNCHANGED listeners
           ELSE IF ~isMobile /\ cursorElement /\ ~isCursorInitialized
           THEN /\ cursorInits < MaxInits
                /\ SetCursor(InitCursor(CursorState, innerWidth, pointerCoarse,
                                        present))
                /\ listeners' = listeners
                       \cup CursorListeners(innerWidth, pointerCoarse, present)
           ELSE /\ SetCursor(CursorState)
                /\ UNCHANGED listeners
    /\ ev' = Event("resizeTimeout", "", cursorDisplay = "none", FALSE)
    /\ UNCHANGED <<navVars, debVars, present, phase, abortLine, over, formVars, pageVars,
                   scrollVars, themeVars, observeVars, downloadVars,
                   pointerCoarse>>

(***************************************************************************)
(* Theme toggle.                                                           *)
(***************************************************************************)
\* What localStorage.getItem returns when no item is stored.
Null == "null"
Themes == {"light", "dark"}

\* The text of the toggle's icon: the sun for the dark theme, the moon for
\* the light one (line 638).
IconFor(theme) == IF theme = "dark" THEN "sun" ELSE "moon"

ThemeState == [stored |-> stored, attr |-> dataTheme, icon |-> themeIconText]

SetThemeState(t) ==
    /\ stored' = t.stored
    /\ dataTheme' = t.attr
    /\ themeIconText' = t.icon

\* Mutant: no default when nothing is stored.
GetThemeNoDefault(t) == t.stored

\* getTheme(): null and the empty string are falsy.
GetTheme(t) == IF t.stored \in {Null, ""} THEN "light" ELSE t.stored

\* setTheme(theme); themeIcon is the icon inside #themeToggle.
SetTheme(t, theme) ==
    [stored |-> theme, attr |-> theme,
     icon |-> IF "themeToggle" \in present THEN IconFor(theme) ELSE t.icon]

\* Mutant: the toggle always selects the dark theme.
ToggleThemeDark(t) == SetTheme(t, "dark")

\* toggleTheme()
ToggleTheme(t) == SetTheme(t, IF GetTheme(t) = "dark" THEN "light" ELSE "dark")

\* initTheme()
InitTheme(t) == SetTheme(t, GetTheme(t))

\* click on #themeToggle.  The event carries the stored value and the
\* attribute from before the click, and whether the event before was a
\* click on the toggle too.
ThemeToggleClick ==
    /\ phase = "ready"
    /\ "themeToggle.click" \in listeners
    /\ SetThemeState(ToggleTheme(ThemeState))
    /\ ev' = Event("themeToggle", <<stored, dataTheme>>, ev.type = "themeToggle", FALSE)
    /\ UNCHANGED <<navVars, debVars, loadVars, formVars, pageVars, scrollVars, cursorVars,
                   observeVars, downloadVars>>

(***************************************************************************)
(* Report download.                                                        *)
(***************************************************************************)
\* The label the download control carries in the markup.
DownloadLabel == "Download Report"
DownloadBusyLabel == "Downloading Report..."

\* How the fetch of line 678 can end: a response with ok, a response
\* without it, or a rejection.
FetchOutcomes == {"ok", "notOk", "networkError"}

DownloadState ==
    [text |-> downloadText, disabled |-> downloadDisabled,
     alerts |-> alertCount, downloads |-> downloadCount]

SetDownload(d) ==
    /\ downloadText' = d.text
    /\ downloadDisabled' = d.disabled
    /\ alertCount' = d.alerts
    /\ downloadCount' = d.downloads

\* The second then-callback (lines 685-700): the link is clicked, the
\* control is restored.
SettleSuccess(d, originalText) ==
    [d EXCEPT !.downloads = @ + 1, !.text = originalText, !.disabled = FALSE]

\* Mutant: the catch-callback reports the error and leaves the control busy.
SettleFailureNoRestore(d, originalText) == [d EXCEPT !.alerts = @ + 1]

\* The catch-callback (lines 701-706).
SettleFailure(d, originalText) ==
    [d EXCEPT !.alerts = @ + 1, !.text = originalText, !.disabled = FALSE]

\* click on #downloadReport, which a disabled button does not receive:
\* downloadReport() up to the call of fetch.
DownloadClick ==
    /\ phase = "ready"
    /\ "downloadReport.click" \in listeners
    /\ "downloadReport" \in present
    /\ ~downloadDisabled
    /\ fetchCount < MaxDownloads
    /\ fetchPending' = Append(fetchPending, [originalText |-> downloadText])
    /\ downloadText' = DownloadBusyLabel
    /\ downloadDisabled' = TRUE
    /\ fetchCount' = fetchCount + 1
    /\ ev' = Event("downloadClick", "", TRUE, TRUE)
    /\ UNCHANGED <<navVars, debVars, loadVars, formVars, pageVars, scrollVars, cursorVars,
                   themeVars, observeVars, alertCount, downloadCount>>

\* The fetch in flight ends with outcome o and its callbacks run.
FetchSettles(o) ==
    /\ fetchPending # <<>>
    /\ fetchPending' = Tail(fetchPending)
    /\ SetDownload(IF o = "ok"
                   THEN SettleSuccess(DownloadState, Head(fetchPending).originalText)
                   ELSE SettleFailure(DownloadState, Head(fetchPending).originalText))
    /\ ev' = Event("fetchSettled", o, TRUE, FALSE)
    /\ UNCHANGED <<navVars, debVars, loadVars, formVars, pageVars, scrollVars, cursorVars,
                   themeVars, observeVars, fetchCount>>

(***************************************************************************)
(* Reveal animation and lazy images.                                       *)
(***************************************************************************)
\* An image without a data-src attribute has dataSrc Absent.
Absent == "(absent)"
DataSrcValues == {Absent, "", "photo.jpg"}
Placeholder == "placeholder.gif"

ImageIds == 1..MaxImages
RevealIds == 1..MaxReveal

ImageMarkups == [ImageIds -> [src : {Placeholder}, dataSrc : DataSrcValues]]

PlainImages == [i \in ImageIds |-> [src |-> Placeholder, dataSrc |-> Absent]]

\* The styles of lines 347-348, and those of lines 339-340.
Hidden == [opacity |-> "0", transform |-> "translateY(20px)"]
Visible == [opacity |-> "1", transform |-> "translateY(0)"]
Unstyled == [opacity |-> "", transform |-> ""]

\* img[data-src]: the images that carry the attribute, whatever its value.
WithDataSrc(imgs) == {i \in DOMAIN imgs : imgs[i].dataSrc # Absent}

\* Mutant: an element that does not intersect is hidden again.
RevealCallbackReversing(styles, e, isIntersecting) ==
    [styles EXCEPT ![e] = IF isIntersecting THEN Visible ELSE Hidden]

\* The callback of observer for an entry of element e (lines 337-342).
RevealCallback(styles, e, isIntersecting) ==
    [styles EXCEPT ![e] = IF isIntersecting THEN Visible ELSE @]

\* Mutant: the callback without the test of line 560.
ImageCallbackNoTest(st, i, isIntersecting) ==
    IF isIntersecting
    THEN [imgs |-> [st.imgs EXCEPT ![i] =
                       [src |-> IF @.dataSrc = Absent THEN "undefined" ELSE @.dataSrc,
                        dataSrc |-> Absent]],
          observed |-> st.observed \ {i}]
    ELSE st

\* The callback of imageObserver for an entry of image i (lines 558-565);
\* dataset.src is undefined without the attribute, and undefined and the
\* empty string are falsy.
ImageCallback(st, i, isIntersecting) ==
    IF isIntersecting /\ st.imgs[i].dataSrc \notin {Absent, ""}
    THEN [imgs |-> [st.imgs EXCEPT ![i] =
                       [src |-> @.dataSrc, dataSrc |-> Absent]],
          observed |-> st.observed \ {i}]
    ELSE st

\* imageObserver reports image i, which it observed when the entry was
\* queued.  The flag tells whether the image was without a data-src
\* attribute when the callback ran.
ImageReport(i, isIntersecting) ==
    /\ phase = "ready"
    /\ "imageObserver" \in listeners
    /\ i \in WithDataSrc(markupImages)
    /\ LET st == ImageCallback([imgs |-> images, observed |-> observedImages],
                               i, isIntersecting) IN
        /\ images' = st.imgs
        /\ observedImages' = st.observed
    /\ ev' = Event("imageReport", <<i, isIntersecting>>,
                   images[i].dataSrc = Absent, FALSE)
    /\ UNCHANGED <<navVars, debVars, loadVars, formVars, pageVars, scrollVars, cursorVars,
                   themeVars, downloadVars, markupImages, revealStyle>>

\* observer reports element e.  The flag tells whether the element was
\* visible before.
RevealReport(e, isIntersecting) ==
    /\ phase = "ready"
    /\ "observer" \in listeners
    /\ revealStyle' = RevealCallback(revealStyle, e, isIntersecting)
    /\ ev' = Event("revealReport", <<e, isIntersecting>>,
                   revealStyle[e] = Visible, FALSE)
    /\ UNCHANGED <<navVars, debVars, loadVars, formVars, pageVars, scrollVars, cursorVars,
                   themeVars, downloadVars, markupImages, images,
                   observedImages>>

(***************************************************************************)
(* Page load actions.                                                      *)
(***************************************************************************)
\* The listeners that the registered DOMContentLoaded listeners register,
\* and the calls they make, at width w.
DomReadyEffects(ls, p) ==
    (IF "DOMContentLoaded:initCursor" \in ls
        THEN CursorListeners(innerWidth, pointerCoarse, p) ELSE {})
    \cup (IF "DOMContentLoaded:download" \in ls /\ "downloadReport" \in p
        THEN {"downloadReport.click"} ELSE {})
    \cup (IF "DOMContentLoaded:init" \in ls
        THEN {"initTheme", "highlightActiveSection:initial"} ELSE {})

\* The script is evaluated: the menu is reset (lines 175-181, before the first
\* statement that can throw) and the listeners are registered.
EvalScript ==
    /\ phase = "parsing"
    /\ LET r == RunScript(1, present, {}) IN
        /\ listeners' = r.listeners
        /\ abortLine' = r.abortLine
    /\ phase' = "evaluated"
    /\ SetPage(ResetMenu(PageState, present))
    /\ revealStyle' = IF "observer" \in listeners'
                      THEN [e \in RevealIds |-> Hidden] ELSE revealStyle
    /\ observedImages' = IF "imageObserver" \in listeners'
                         THEN WithDataSrc(images) ELSE observedImages
    /\ ev' = Event("script", "", TRUE, FALSE)
    /\ UNCHANGED <<navVars, debVars, present, formVars, markup, innerWidth, scrollVars,
                   cursorVars, themeVars, downloadVars, markupImages, images>>

\* DOMContentLoaded: each registered listener runs.  The event carries the
\* stored theme from before it.
DOMContentLoaded ==
    /\ phase = "evaluated"
    /\ listeners' = listeners \cup DomReadyEffects(listeners, present)
    /\ phase' = "ready"
    /\ SetPage(IF "DOMContentLoaded:closeMenu" \in listeners
               THEN MenuDomReady(PageState, present) ELSE PageState)
    /\ linkBg' = IF "DOMContentLoaded:init" \in listeners
                 THEN HighlightActiveSection(scrollY) ELSE linkBg
    /\ SetCursor(IF "DOMContentLoaded:initCursor" \in listeners
                 THEN InitCursor(CursorState, innerWidth, pointerCoarse, present)
                 ELSE CursorState)
    /\ SetThemeState(IF "DOMContentLoaded:init" \in listeners
                     THEN InitTheme(ThemeState) ELSE ThemeState)
    /\ ev' = Event("DOMContentLoaded", stored, TRUE, FALSE)
    /\ UNCHANGED <<navVars, debVars, present, abortLine, formVars, markup, innerWidth,
                   sections, scrollY, debounceLeft, pointerCoarse, over,
                   resizePending, observeVars, downloadVars>>

(***************************************************************************)
(* Specifications.                                                         *)
(***************************************************************************)
FormInit ==
    /\ value = [f \in Fields |-> <<>>]
    /\ errorDivs = [f \in Fields |-> <<>>]
    /\ borderColor = [f \in Fields |-> ""]
    /\ btnText = SubmitLabel
    /\ btnDisabled = FALSE
    /\ formMessages = <<>>
    /\ timers = <<>>
    /\ submitCount = 0
    /\ ev = Event("none", "", TRUE, FALSE)

\* The menu and the lightbox as markup m has them, before any handler ran.
PageRest(m) ==
    /\ markup = m
    /\ menuActive = m.menuActive
    /\ hamburgerActive = m.hamburgerActive
    /\ ariaExpanded = m.ariaExpanded
    /\ bodyOverflow = m.bodyOverflow
    /\ lightboxDisplay = ""
    /\ lightboxImg = NoImage
    /\ lightboxCaption = <<>>

\* No link carries an inline background, and no debounce timer is pending.
LinksRest ==
    /\ linkBg = [i \in 1..MaxSections |-> ""]
    /\ debounceLeft = -1

\* The page at the top, with stacked sections.
ScrollRest ==
    /\ sections = DefaultSections
    /\ scrollY = 0
    /\ LinksRest

\* A viewport wider than the mobile breakpoint.
DesktopWidth == MobileBreakpoint + 1

\* The cursor's variables as the script's first lines leave them, and the
\* cursor element's styles as the markup has them.
CursorAtRest ==
    [mouse |-> <<0, 0>>, pos |-> <<>>, opacity |-> "", display |-> "",
     scale |-> "", hovering |-> FALSE, initialized |-> FALSE,
     bodyCursor |-> "", styles |-> 0, inits |-> 0]

CursorIs(c) ==
    /\ mouse = c.mouse
    /\ cursorPos = c.pos
    /\ cursorOpacity = c.opacity
    /\ cursorDisplay = c.display
    /\ cursorScale = c.scale
    /\ isHovering = c.hovering
    /\ isCursorInitialized = c.initialized
    /\ bodyCursor = c.bodyCursor
    /\ styleElements = c.styles
    /\ cursorInits = c.inits

\* The pointer is over no interactive element, and no resize timer is pending.
PointerRest ==
    /\ over = 0
    /\ resizePending = FALSE

ThemeIs(t) ==
    /\ stored = t.stored
    /\ dataTheme = t.attr
    /\ themeIconText = t.icon

\* Nothing stored, no data-theme attribute in the markup.
ThemeAtRest == [stored |-> Null, attr |-> Absent, icon |-> IconFor("light")]

\* The images and the observed elements as markup m has them.
ObserveRest(m) ==
    /\ markupImages = m
    /\ images = m
    /\ observedImages = {}
    /\ revealStyle = [e \in RevealIds |-> Unstyled]

\* The images and the observed elements after the script ran on a page
\* without lazy images.
ObserveLoaded ==
    /\ markupImages = PlainImages
    /\ images = PlainImages
    /\ observedImages = {}
    /\ revealStyle = [e \in RevealIds |-> Hidden]

DownloadRest ==
    /\ downloadText = DownloadLabel
    /\ downloadDisabled = FALSE
    /\ fetchPending = <<>>
    /\ fetchCount = 0
    /\ alertCount = 0
    /\ downloadCount = 0

\* The nav bar as clean markup has it on a page with a header, the focus on
\* the body, no smooth scroll in progress, the load event not yet dispatched.
NavRest ==
    /\ hasHeader = TRUE
    /\ headerHeight = DefaultHeaderHeight
    /\ navScrolled = FALSE
    /\ windowLoaded = FALSE
    /\ focus = Body
    /\ scrollTarget = <<>>

\* The debounced function has not been called.
DebounceRest ==
    /\ debTimers = <<>>
    /\ debTimeout = 0
    /\ debCalls = <<>>
    /\ debInvoked = <<>>
    /\ debSince = 0

\* The page right after load with every expected element in the markup, on
\* a desktop viewport with a fine pointer.
Loaded ==
    /\ present = Elements
    /\ phase = "ready"
    /\ PageRest(CleanMarkup)
    /\ innerWidth = DesktopWidth
    /\ pointerCoarse = FALSE
    /\ ScrollRest
    /\ abortLine = RunScript(1, Elements, {}).abortLine
    /\ listeners = LET ls == RunScript(1, Elements, {}).listeners
                   IN ls \cup DomReadyEffects(ls, Elements)
    /\ CursorIs(InitCursor(CursorAtRest, DesktopWidth, FALSE, Elements))
    /\ PointerRest
    /\ ThemeIs(InitTheme(ThemeAtRest))
    /\ ObserveLoaded
    /\ DownloadRest
    /\ NavRest
    /\ DebounceRest

\* The features that a specification leaves alone, before the script runs.
OthersAtRest ==
    /\ pointerCoarse = FALSE
    /\ CursorIs(CursorAtRest)
    /\ PointerRest
    /\ ThemeIs(ThemeAtRest)
    /\ ObserveRest(PlainImages)
    /\ DownloadRest
    /\ NavRest
    /\ DebounceRest

\* SpecLoad: the page loads with any subset of the expected elements.
InitLoad ==
    /\ present \in SUBSET Elements
    /\ phase = "parsing"
    /\ abortLine = 0
    /\ listeners = {}
    /\ FormInit
    /\ PageRest(CleanMarkup)
    /\ innerWidth = DesktopWidth
    /\ ScrollRest
    /\ OthersAtRest

NextLoad == EvalScript \/ DOMContentLoaded

SpecLoad == InitLoad /\ [][NextLoad]_vars

\* SpecPage: the page loads from markup that may carry stale classes, then
\* the user works the menu and the gallery and resizes the window.
InitPage ==
    /\ present = Elements
    /\ phase = "parsing"
    /\ abortLine = 0
    /\ listeners = {}
    /\ FormInit
    /\ \E m \in Markups : PageRest(m)
    /\ innerWidth \in Widths
    /\ ScrollRest
    /\ OthersAtRest

NextPage ==
    \/ EvalScript
    \/ DOMContentLoaded
    \/ HamburgerClick
    \/ NavLinkClick
    \/ OutsideClick
    \/ \E w \in Widths : Resize(w)
    \/ \E i \in GalleryItems : GalleryClick(i)
    \/ LightboxCloseClick
    \/ BackdropClick
    \/ LightboxContentClick
    \/ KeyEscape

SpecPage == InitPage /\ [][NextPage]_vars

\* SpecScroll: sections of any geometry; the script has been evaluated, the
\* page may have been restored at any offset; DOMContentLoaded fires, then
\* the user scrolls and time passes.
InitScroll ==
    /\ present = Elements
    /\ phase = "evaluated"
    /\ abortLine = RunScript(1, Elements, {}).abortLine
    /\ listeners = RunScript(1, Elements, {}).listeners
    /\ FormInit
    /\ PageRest(CleanMarkup)
    /\ innerWidth = MobileBreakpoint
    /\ sections \in Geometries
    /\ scrollY \in Offsets
    /\ LinksRest
    /\ pointerCoarse = FALSE
    /\ CursorIs(CursorAtRest)
    /\ PointerRest
    /\ ThemeIs(ThemeAtRest)
    /\ ObserveLoaded
    /\ DownloadRest
    /\ NavRest
    /\ DebounceRest

NextScroll ==
    \/ DOMContentLoaded
    \/ \E y \in Offsets : Scroll(y)
    \/ ScrollTick
    \/ DebouncedHighlight

SpecScroll == InitScroll /\ [][NextScroll]_vars

\* SpecCursor: the script has been evaluated on a page with or without the
\* cursor element, on a narrow or wide viewport with a coarse or fine
\* pointer; DOMContentLoaded fires, then the pointer moves, frames are
\* rendered and the window is resized.
InitCursorSpec ==
    /\ present \in {Elements, Elements \ {"customCursor"}}
    /\ phase = "evaluated"
    /\ abortLine = RunScript(1, present, {}).abortLine
    /\ listeners = RunScript(1, present, {}).listeners
    /\ FormInit
    /\ PageRest(CleanMarkup)
    /\ innerWidth \in Widths
    /\ ScrollRest
    /\ pointerCoarse \in BOOLEAN
    /\ CursorIs(CursorAtRest)
    /\ PointerRest
    /\ ThemeIs(ThemeAtRest)
    /\ ObserveLoaded
    /\ DownloadRest
    /\ NavRest
    /\ DebounceRest

NextCursor ==
    \/ DOMContentLoaded
    \/ \E pt \in Points : MouseMove(pt)
    \/ \E k \in 0..MaxNesting : PointerTo(k)
    \/ Frame
    \/ \E w \in Widths : Resize(w)
    \/ ResizeTimeout

SpecCursor == InitCursorSpec /\ [][NextCursor]_vars

\* SpecControls: the script has been evaluated; the storage holds nothing or
\* a theme that an earlier visit stored, the markup may carry a data-theme
\* attribute and either icon; DOMContentLoaded fires, then the user works
\* the theme toggle and the download control, and fetches end.
InitControls ==
    /\ present = Elements
    /\ phase = "evaluated"
    /\ abortLine = RunScript(1, Elements, {}).abortLine
    /\ listeners = RunScript(1, Elements, {}).listeners
    /\ FormInit
    /\ PageRest(CleanMarkup)
    /\ innerWidth = DesktopWidth
    /\ ScrollRest
    /\ pointerCoarse = FALSE
    /\ CursorIs(CursorAtRest)
    /\ PointerRest
    /\ stored \in {Null} \cup Themes
    /\ dataTheme \in {Absent} \cup Themes
    /\ themeIconText \in {IconFor(t) : t \in Themes}
    /\ ObserveLoaded
    /\ DownloadRest
    /\ NavRest
    /\ DebounceRest

NextControls ==
    \/ DOMContentLoaded
    \/ ThemeToggleClick
    \/ DownloadClick
    \/ \E o \in FetchOutcomes : FetchSettles(o)

SpecControls == InitControls /\ [][NextControls]_vars

\* SpecObserve: the page loads with images of any markup, then the two
\* observers report their elements.
InitObserve ==
    /\ present = Elements
    /\ phase = "parsing"
    /\ abortLine = 0
    /\ listeners = {}
    /\ FormInit
    /\ PageRest(CleanMarkup)
    /\ innerWidth = DesktopWidth
    /\ ScrollRest
    /\ pointerCoarse = FALSE
    /\ CursorIs(CursorAtRest)
    /\ PointerRest
    /\ ThemeIs(ThemeAtRest)
    /\ \E m \in ImageMarkups : ObserveRest(m)
    /\ DownloadRest
    /\ NavRest
    /\ DebounceRest

NextObserve ==
    \/ EvalScript
    \/ DOMContentLoaded
    \/ \E i \in ImageIds : \E b \in BOOLEAN : ImageReport(i, b)
    \/ \E e \in RevealIds : \E b \in BOOLEAN : RevealReport(e, b)

SpecObserve == InitObserve /\ [][NextObserve]_vars

\* SpecNav: the script has been evaluated on a page with or without a
\* header, restored at any offset, whose nav may carry the class 'scrolled';
\* DOMContentLoaded and load fire, the user scrolls, clicks in-page anchors,
\* moves the focus and presses arrow keys.
InitNav ==
    /\ present = Elements
    /\ phase = "evaluated"
    /\ abortLine = RunScript(1, Elements, {}).abortLine
    /\ listeners = RunScript(1, Elements, {}).listeners
    /\ FormInit
    /\ PageRest(CleanMarkup)
    /\ innerWidth = DesktopWidth
    /\ sections = DefaultSections
    /\ scrollY \in Offsets
    /\ LinksRest
    /\ pointerCoarse = FALSE
    /\ CursorIs(CursorAtRest)
    /\ PointerRest
    /\ ThemeIs(ThemeAtRest)
    /\ ObserveLoaded
    /\ DownloadRest
    /\ hasHeader \in BOOLEAN
    /\ headerHeight \in HeaderHeights
    /\ navScrolled \in BOOLEAN
    /\ windowLoaded = FALSE
    /\ focus = Body
    /\ scrollTarget = <<>>
    /\ DebounceRest

NextNav ==
    \/ DOMContentLoaded
    \/ WindowLoad
    \/ \E y \in Offsets : Scroll(y)
    \/ \E a \in InPageAnchors : \E t \in TargetKinds : AnchorClick(a, t)
    \/ SmoothScrollEnds
    \/ \E e \in Focusable : FocusTo(e)
    \/ \E key \in ArrowKeys : KeyArrow(key)

SpecNav == InitNav /\ [][NextNav]_vars

\* SpecValidate: one field holds any string up to its bound, and the
\* validators are applied to it.
Strings(alphabet, n) == UNION {[1..k -> alphabet] : k \in 0..n}

EmailInputs == Strings({" ", "a", "@", "."}, MaxEmailLen)
NameInputs == Strings({" ", "\t", "a"}, MaxNameLen)
MessageInputs == Strings({" ", "a"}, MaxMessageLen)

InitValidate ==
    /\ Loaded
    /\ errorDivs = [f \in Fields |-> <<>>]
    /\ borderColor = [f \in Fields |-> ""]
    /\ btnText = SubmitLabel
    /\ btnDisabled = FALSE
    /\ formMessages = <<>>
    /\ timers = <<>>
    /\ submitCount = 0
    /\ ev = Event("none", "", TRUE, FALSE)
    /\ \E f \in Fields :
         \E v \in (IF f = "name" THEN NameInputs
                   ELSE IF f = "email" THEN EmailInputs ELSE MessageInputs) :
            value = [g \in Fields |-> IF g = f THEN v ELSE <<>>]

NextValidate == \E f \in Fields : Blur(f)

SpecValidate == InitValidate /\ [][NextValidate]_vars

\* Spec: the loaded page; the user edits and leaves fields and submits, and
\* time passes.
NameSamples == {<<>>, <<"A", "n", "n">>}
EmailSamples ==
    {<<>>, <<"b", "a", "d", "-", "e", "m", "a", "i", "l">>,
     <<"a", "@", "b", ".", "c", "o">>}
MessageSamples ==
    {<<>>, <<"1", "2", "3", "4", "5", "6", "7", "8", "9", "0">>}

Samples(f) ==
    IF f = "name" THEN NameSamples
    ELSE IF f = "email" THEN EmailSamples ELSE MessageSamples

Init == Loaded /\ FormInit

Next ==
    \/ \E f \in Fields : \E v \in Samples(f) : Input(f, v)
    \/ \E f \in Fields : Blur(f)
    \/ Submit
    \/ SubmitDone
    \/ BannerTimeout
    \/ Tick

Spec == Init /\ [][Next]_vars

\* SpecDebounce: the loaded page; the debounced function is called with
\* either argument, and time passes.
NextDebounce ==
    \/ \E args \in CallArgs : DebouncedCall(args)
    \/ DebounceTick
    \/ DebounceLater

SpecDebounce == Init /\ [][NextDebounce]_vars

(***************************************************************************)
(* The claims.  The rules below are the specification's wording of the     *)
(* field rules, stated without the validators' code.                       *)
(***************************************************************************)
Range(seq) == {seq[i] : i \in 1..Len(seq)}

\* v without its leading and trailing whitespace.
Trimmed(v) ==
    LET solid == {k \in 1..Len(v) : v[k] \notin Whitespace} IN
    IF solid = {} THEN <<>>
    ELSE SubSeq(v, CHOOSE a \in solid : \A k \in solid : a <= k,
                   CHOOSE b \in solid : \A k \in solid : k <= b)

NameRule(v) == Len(Trimmed(v)) >= 2

MessageRule(v) == Len(Trimmed(v)) >= 10

\* no whitespace, exactly one "@" with something before it, and after the "@"
\* a "." with at least one character on each side of it
EmailRule(v) ==
    LET t == Trimmed(v)
        ats == {k \in 1..Len(t) : t[k] = "@"} IN
    /\ \A k \in 1..Len(t) : t[k] \notin Whitespace
    /\ Cardinality(ats) = 1
    /\ \A a \in ats :
        /\ a > 1
        /\ \E d \in (a + 2)..(Len(t) - 1) : t[d] = "."

Rule(f, v) ==
    IF f = "name" THEN NameRule(v)
    ELSE IF f = "email" THEN EmailRule(v) ELSE MessageRule(v)

Failing == {f \in Fields : ~Rule(f, value[f])}

Showing == {f \in Fields : errorDivs[f] # <<>>}

\* The features of the page, the expected elements each one uses and the
\* listeners and load-time steps it consists of.
Feature(uses, handlers) == [uses |-> uses, handlers |-> handlers]

Features ==
    { Feature({"customCursor"}, {"mousemove:cursor", "cursor.frameLoop"}),
      Feature({"hamburger", "navMenu"},
              {"hamburger.click", "navMenu.click", "click:closeMenu", "resize:closeMenu"}),
      Feature({"scrollToTop"}, {"scroll:scrollToTop", "scrollToTop.click"}),
      Feature({"lightbox", "lightbox-img", "lightbox-caption", "lightbox-close"},
              {"galleryItem.click", "lightboxClose.click", "lightbox.click",
               "keydown:Escape"}),
      Feature({"contactForm", "name", "email", "message"},
              {"name.blur", "email.blur", "message.blur", "contactForm.submit"}),
      Feature({"themeToggle"}, {"themeToggle.click"}),
      Feature({"downloadReport"}, {"downloadReport.click"}),
      Feature({}, {"keydown:navArrows"}),
      Feature({}, {"scroll:debouncedHighlight"}),
      Feature({}, {"initTheme"}) }

\* C1: when the page has loaded with one expected element missing, every
\* feature that does not use that element has its listeners registered.
C1_MissingElementIsolated ==
    (phase = "ready" /\ Cardinality(Elements \ present) = 1) =>
        \A F \in Features : F.uses \subseteq present => F.handlers \subseteq listeners

\* A step that handles a submit event with a field failing its rule.
C2_InvalidSubmitStep ==
    (ev'.type = "submit" /\ Failing # {}) =>
        /\ ev'.defaultPrevented
        /\ ~ev'.ok
        /\ btnDisabled' = btnDisabled
        /\ btnText' = btnText
        /\ timers' = timers
        /\ formMessages' = formMessages
        /\ submitCount' = submitCount

\* C2: a submit event with at least one field failing its rule suppresses the
\* default submission and starts nothing: the button's disabled state and
\* label, the timers and the banner are as they were before the event.
C2_InvalidSubmitStartsNothing == [][C2_InvalidSubmitStep]_vars

C2_Witness ==
    /\ ev.type = "submit"
    /\ Failing = {"name"}
    /\ ~btnDisabled
    /\ timers = <<>>

\* C3: right after a submit event the fields showing an inline error are
\* exactly the fields whose value fails its rule.
C3_ErrorsAreTheFailingFields ==
    ev.type = "submit" => Showing = Failing

\* name "Ann", email "bad-email", a message of length 10: only the email error
C3_Witness ==
    /\ ev.type = "submit"
    /\ Len(value["name"]) = 3
    /\ Len(value["email"]) = 9
    /\ Len(value["message"]) = 10
    /\ Showing = {"email"}

\* a submission is still inside its 1500 ms delay
SubmitWaiting == \E t \in Range(timers) : t.kind = "submit" /\ t.left > 0

\* C4: an accepted submit disables the button and sets the busy label at
\* once, the button stays so while the submission waits for its delay, and
\* at the end of the delay a success banner is shown and the fields are empty.
C4_BusyUntilDelayElapses ==
    /\ (ev.type = "submit" /\ ev.ok) => (btnDisabled /\ btnText = BusyLabel)
    /\ SubmitWaiting => (btnDisabled /\ btnText = BusyLabel)
    /\ ev.type = "submitDone" =>
        /\ formMessages # <<>>
        /\ formMessages[Len(formMessages)].type = "success"
        /\ \A f \in Fields : value[f] = <<>>

\* C5: when a submission has completed, the button is enabled and carries the
\* label it had before any submission began.
C5_ButtonRestoredOnCompletion ==
    ev.type = "submitDone" => (~btnDisabled /\ btnText = SubmitLabel)

\* A banner in the form has its own timer pending, due 5 s after it was shown.
C6_BannerInv ==
    /\ Len(formMessages) <= 1
    /\ \A b \in Range(formMessages) :
        \E t \in Range(timers) :
            t.kind = "banner" /\ t.id = b.id /\ t.left = BannerTicks - b.age
    /\ ev.type = "submitDone" =>
        (Len(formMessages) = 1 /\ formMessages[1].age = 0)

C6_BannerStep ==
    \A b \in Range(formMessages) :
        (\A c \in Range(formMessages') : c.id # b.id) =>
            \/ ev'.type = "submitDone"
            \/ ev'.type = "bannerTimeout" /\ b.age = BannerTicks

\* C6: the form holds at most one banner; a banner stays until a newer one
\* replaces it or until its own timer fires 5 s after it was shown, and the
\* timer of a replaced banner leaves the newer banner alone.
C6_OneBannerForFiveSeconds == []C6_BannerInv /\ [][C6_BannerStep]_vars

\* the timer of a replaced banner has fired and the newer banner is still shown
C6_Witness ==
    /\ ev.type = "bannerTimeout"
    /\ formMessages # <<>>
    /\ formMessages[1].age > 0

\* C7: no banner is ever an error banner, and every completed submission
\* shows the success banner.
C7_NoErrorBanner ==
    /\ \A b \in Range(formMessages) : b.type = "success"
    /\ ev.type = "submitDone" =>
        (formMessages # <<>> /\ formMessages[Len(formMessages)].type = "success")

C7_Witness == ev.type = "submitDone" /\ formMessages # <<>>

\* C8: validateEmail returns true exactly for the values that satisfy the
\* email rule, and shows the email error for every other value.
C8_EmailAcceptedIffRule ==
    (ev.type = "blur" /\ ev.field = "email") =>
        /\ ev.ok <=> EmailRule(value["email"])
        /\ errorDivs["email"] = IF ev.ok THEN <<>> ELSE <<EmailErrorText>>

\* an address with whitespace around it is accepted
C8_Witness ==
    /\ ev.type = "blur"
    /\ ev.field = "email"
    /\ ev.ok
    /\ Len(value["email"]) > Len(Trimmed(value["email"]))

\* C9: validateName returns true exactly when the trimmed name has at least
\* 2 characters, validateMessage exactly when the trimmed message has at
\* least 10.
C9_LengthThresholds ==
    /\ (ev.type = "blur" /\ ev.field = "name") => (ev.ok <=> NameRule(value["name"]))
    /\ (ev.type = "blur" /\ ev.field = "message") =>
        (ev.ok <=> MessageRule(value["message"]))

\* a message of exactly 10 characters after trimming passes
C9_Witness ==
    /\ ev.type = "blur"
    /\ ev.field = "message"
    /\ ev.ok
    /\ Len(value["message"]) = 11
    /\ Len(Trimmed(value["message"])) = 10

\* A field has no two error elements, and the error border with the element.
C10_ErrorInv ==
    \A f \in Fields :
        /\ Len(errorDivs[f]) <= 1
        /\ borderColor[f] \in {"", ErrorBorder}
        /\ borderColor[f] = ErrorBorder <=> errorDivs[f] # <<>>

C10_ErrorStep ==
    \A f \in Fields :
        IF ev'.type = "submit" \/ (ev'.type = "blur" /\ ev'.field = f)
        THEN errorDivs'[f] # <<>> <=> ~Rule(f, value[f])
        ELSE errorDivs'[f] = errorDivs[f] /\ borderColor'[f] = borderColor[f]

\* C10: a field never has two error elements and has the error border exactly
\* when it has an error element; a step that validates a field leaves it with
\* an error element exactly when the validation failed, and changes the error
\* element and border of no other field.
C10_OneErrorPerField == []C10_ErrorInv /\ [][C10_ErrorStep]_vars

\* the email was validated again and passed while the name keeps its error
C10_Witness ==
    /\ ev.type = "blur"
    /\ ev.field = "email"
    /\ ev.ok
    /\ Len(errorDivs["name"]) = 1
    /\ errorDivs["email"] = <<>>

\* A step in which the user edits a field leaves the field without an error
\* element.
C11_EditStep ==
    \A f \in Fields :
        (ev'.type = "input" /\ value'[f] # value[f]) => errorDivs'[f] = <<>>

\* C11: after an edit of a field that shows an inline error the error
\* element is gone, before any blur or submit.
C11_EditRemovesError == [][C11_EditStep]_vars

\* C12: whenever the lightbox overlay is shown, the body scroll is locked,
\* whatever events came since it opened.
C12_OpenLightboxLocksScroll == lightboxDisplay = "flex" => bodyOverflow = "hidden"

ShownImage(i) == [src |-> Gallery(i).src, alt |-> Gallery(i).alt]

C13_AfterClick ==
    ev.type = "galleryClick" =>
        /\ lightboxDisplay = "flex"
        /\ lightboxImg = ShownImage(ev.field)
        /\ lightboxCaption = Gallery(ev.field).caption

\* Only a click on a gallery image changes what the overlay shows.
C13_OnlyClickReplaces ==
    (lightboxImg' # lightboxImg \/ lightboxCaption' # lightboxCaption)
        => ev'.type = "galleryClick"

\* C13: after a click on gallery image i the overlay is open with the source,
\* alt text and caption of image i; a later click on image j replaces them,
\* and nothing else does, so the overlay shows the image clicked last.
C13_OverlayShowsClickedImage == []C13_AfterClick /\ [][C13_OnlyClickReplaces]_vars

\* Image 2 was clicked while the overlay held image 1.
C13_Witness ==
    /\ ev.type = "galleryClick"
    /\ ev.field = MaxGallery
    /\ ev.ok
    /\ lightboxImg = ShownImage(MaxGallery)

CloseEvents == {"lightboxCloseClick", "backdropClick"}

\* C14: with the overlay open, a click on the close control or on the
\* backdrop and an Escape key press hide the overlay and clear the scroll
\* lock; a click on the overlay's image or caption, made while the scroll is
\* locked, leaves the overlay shown and the scroll locked.
C14_LightboxClicks ==
    /\ (ev.type \in CloseEvents \/ (ev.type = "keyEscape" /\ ev.ok))
           => (lightboxDisplay = "none" /\ bodyOverflow = "")
    /\ (ev.type = "lightboxContentClick" /\ ev.ok)
           => (lightboxDisplay = "flex" /\ bodyOverflow = "hidden")

\* C15: after a click on a nav link, a click outside the menu and the
\* hamburger, and a resize to a width above 768 px the menu is closed,
\* whatever its state before.
C15_MenuClosedAfterCloseEvents ==
    (ev.type \in {"navLinkClick", "outsideClick"}
        \/ (ev.type = "resize" /\ innerWidth > MobileBreakpoint))
    => ~menuActive

\* C16: on the loaded page the two 'active' classes and aria-expanded agree,
\* and the scroll is locked whenever the menu is open.
C16_MenuStateAgrees ==
    phase = "ready" =>
        /\ hamburgerActive = menuActive
        /\ (ariaExpanded = "true") = menuActive
        /\ ariaExpanded \in {"true", "false"}
        /\ menuActive => bodyOverflow = "hidden"

\* C17: when the load has completed the menu is closed, the hamburger is not
\* active, aria-expanded is 'false' and the body overflow is cleared, whatever
\* the markup carried.
C17_ClosedAfterLoad ==
    ev.type = "DOMContentLoaded" =>
        /\ ~menuActive
        /\ ~hamburgerActive
        /\ ariaExpanded = "false"
        /\ bodyOverflow = ""

\* The load has completed from markup with stale classes and a stale lock.
C17_Witness ==
    /\ ev.type = "DOMContentLoaded"
    /\ markup.menuActive
    /\ markup.hamburgerActive
    /\ markup.ariaExpanded = "true"
    /\ markup.bodyOverflow = "hidden"
    /\ ~menuActive

\* highlightActiveSection ran in the step that led to the state.
HighlightRan ==
    \/ ev.type \in {"DOMContentLoaded", "debouncedHighlight"}
    \/ ev.type = "scroll" /\ ev.ok

Marked == {i \in DOMAIN linkBg : linkBg[i] # ""}

\* The span of section i as the specification words it, both ends included.
SpanContains(i, y) ==
    /\ sections[i].top - 100 <= y
    /\ y <= sections[i].top - 100 + sections[i].height

Containing == {i \in DOMAIN sections : SpanContains(i, scrollY)}

\* C18: after highlightActiveSection ran at offset Y a marked link is the
\* link of a section whose span contains Y, a link is marked when some span
\* contains Y, and none is marked when no span contains Y.
C18_MarkedIsContaining ==
    HighlightRan =>
        /\ Marked \subseteq Containing
        /\ (Marked = {}) = (Containing = {})

\* The sections whose span holds the offset strictly above its lower end: the
\* reading of "contains" on which the end points, the subject of C18, play no
\* part.
Matching ==
    {i \in DOMAIN sections :
        /\ sections[i].top - 100 < scrollY
        /\ scrollY <= sections[i].top - 100 + sections[i].height}

LastMatching == CHOOSE i \in Matching : \A j \in Matching : j <= i

C20_NoHighlightWithinBurst ==
    (ev.type = "scroll" /\ ev.field = "burst") => ~ev.ok

\* After a frame that follows a mousemove the cursor is at that event's point.
C21_AfterFrame ==
    (ev.type = "frame" /\ ev.field # <<>>) => cursorPos = ev.field

\* A mousemove leaves the rendered position alone.
C21_MoveStep == ev'.type = "mousemove" => cursorPos' = cursorPos

\* C21: after the frame that follows a run of pointer moves the cursor's
\* left/top are the coordinates of the last of them, and no pointer-move
\* handler changes left/top.
C21_FrameShowsLastMove == []C21_AfterFrame /\ [][C21_MoveStep]_vars

\* A frame after two or more pointer moves in a row, the last one away from
\* the first point.
C21_Witness ==
    /\ ev.type = "frame"
    /\ ev.ok
    /\ ev.field # <<0, MaxCoord>>
    /\ cursorPos = ev.field

\* C22: after each frame the cursor's scale is 1.5 exactly when the pointer
\* is over one or more registered interactive elements, nested ones included.
C22_ScaleFollowsHover ==
    ev.type = "frame" => ((cursorScale = "1.5") = (over > 0))

\* The device counts as mobile: narrow viewport or touch-primary.
MobileDevice == innerWidth <= 768 \/ pointerCoarse

\* C23: with the cursor element in the page, after the debounced resize
\* callback on a mobile viewport the cursor is hidden and the platform cursor
\* restored, and after it on a desktop viewport the cursor is shown, the
\* platform cursor hidden and the pointer tracked.
C23_ResizeSwitchesCursor ==
    (ev.type = "resizeTimeout" /\ "customCursor" \in present) =>
        IF MobileDevice
        THEN cursorDisplay = "none" /\ bodyCursor = ""
        ELSE cursorDisplay # "none" /\ bodyCursor = "none" /\ cursorInits > 0

\* C24: initCursor at load on a mobile device or without the cursor element
\* registers no listener, starts no frame loop, leaves the platform cursor
\* and the cursor's variables alone and adds no style element.
C24_InitIsNoOp ==
    (ev.type = "DOMContentLoaded"
        /\ (MobileDevice \/ "customCursor" \notin present)) =>
        /\ listeners \cap {"mousemove:cursor", "cursor.frameLoop"} = {}
        /\ cursorInits = 0
        /\ styleElements = 0
        /\ bodyCursor = ""
        /\ CursorIs(CursorAtRest)

\* The load has completed on a wide touch-primary device whose page has the
\* cursor element.
C24_Witness ==
    /\ ev.type = "DOMContentLoaded"
    /\ pointerCoarse
    /\ innerWidth > 768
    /\ "customCursor" \in present
    /\ cursorInits = 0

\* A click on the toggle changes the stored theme and the attribute to the
\* other theme; the second of two clicks in a row brings back the values
\* from before the first.
C25_ToggleStep ==
    ev'.type = "themeToggle" =>
        /\ stored \in {"light", "dark"}
        /\ dataTheme \in {"light", "dark"}
        /\ stored' \in {"light", "dark"} \ {stored}
        /\ dataTheme' \in {"light", "dark"} \ {dataTheme}
        /\ ev.type = "themeToggle" =>
               (stored' = ev.field[1] /\ dataTheme' = ev.field[2])

\* C25: two theme toggles in a row return the theme attribute and the
\* persisted value to what they were, and one toggle changes both to the
\* other of light and dark.
C25_TwoTogglesRoundTrip == [][C25_ToggleStep]_vars

\* The second of two toggles in a row, on a page that loaded with 'dark'
\* persisted.
C25_Witness ==
    /\ ev.type = "themeToggle"
    /\ ev.ok
    /\ ev.field = <<"light", "light">>
    /\ stored = "dark"
    /\ dataTheme = "dark"

\* C26: once the page has loaded, the persisted theme is light or dark, the
\* attribute equals it and the icon matches it; a load with nothing persisted
\* gives light.
C26_ThemeConsistent ==
    phase = "ready" =>
        /\ stored \in {"light", "dark"}
        /\ dataTheme = stored
        /\ themeIconText = (IF stored = "dark" THEN "sun" ELSE "moon")
        /\ (ev.type = "DOMContentLoaded" /\ ev.field = "null") => stored = "light"

\* The load has completed with nothing persisted.
C26_Witness ==
    /\ ev.type = "DOMContentLoaded"
    /\ ev.field = "null"
    /\ stored = "light"
    /\ dataTheme = "light"

\* An image the lazy-load observer has nothing to do with keeps its source
\* and its attributes.
C27_Step ==
    \A i \in 1..MaxImages :
        images[i].dataSrc = "(absent)" => images'[i] = images[i]

\* C27: the lazy-load observer never changes an image that has no data-src
\* attribute when its callback runs, be it that the image never had one or
\* that it has been loaded.
C27_NoDataSrcUntouched == [][C27_Step]_vars

\* A visibility report for an image that had been loaded before.
C27_Witness ==
    /\ ev.type = "imageReport"
    /\ ev.field[2]
    /\ ev.ok
    /\ images[ev.field[1]].src = markupImages[ev.field[1]].dataSrc

\* C28: an image that carried a data-src attribute at load and has been
\* reported visible has the attribute's value as its source, has lost the
\* attribute and is no longer observed, whatever the value.
C28_SwappedWhenVisible ==
    (ev.type = "imageReport" /\ ev.field[2]) =>
        LET i == ev.field[1] IN
        /\ images[i].src = markupImages[i].dataSrc
        /\ images[i].dataSrc = "(absent)"
        /\ i \notin observedImages

ShownStyle == [opacity |-> "1", transform |-> "translateY(0)"]
HiddenStyle == [opacity |-> "0", transform |-> "translateY(20px)"]

C29_Inv ==
    /\ ev.type = "script" => \A e \in 1..MaxReveal : revealStyle[e] = HiddenStyle
    /\ (ev.type = "revealReport" /\ ev.field[2]) => revealStyle[ev.field[1]] = ShownStyle

\* An element that is visible stays visible.
C29_Step ==
    \A e \in 1..MaxReveal : revealStyle[e] = ShownStyle => revealStyle'[e] = ShownStyle

\* C29: the observed elements are hidden when the script has run, an element
\* reported intersecting is fully visible, and a visible element stays
\* visible under every later report.
C29_RevealOnceNoReversal == []C29_Inv /\ [][C29_Step]_vars

\* A visible element was reported as not intersecting.
C29_Witness ==
    /\ ev.type = "revealReport"
    /\ ~ev.field[2]
    /\ ev.ok
    /\ revealStyle[ev.field[1]] = ShownStyle

C30_Inv ==
    /\ Len(fetchPending) <= 1
    /\ fetchPending # <<>> =>
           (downloadDisabled /\ downloadText = "Downloading Report...")
    /\ (phase = "ready" /\ fetchPending = <<>>) =>
           (~downloadDisabled /\ downloadText = DownloadLabel)

\* A click starts one fetch; the end of a fetch starts none, and it triggers
\* a download without an alert on an OK response and an alert without a
\* download otherwise.
C30_Step ==
    /\ ev'.type = "downloadClick" =>
           /\ fetchCount' = fetchCount + 1
           /\ alertCount' = alertCount
           /\ downloadCount' = downloadCount
    /\ ev'.type = "fetchSettled" =>
           /\ fetchCount' = fetchCount
           /\ IF ev'.field = "ok"
              THEN downloadCount' = downloadCount + 1 /\ alertCount' = alertCount
              ELSE downloadCount' = downloadCount /\ alertCount' = alertCount + 1

\* C30: a click on the download control makes one fetch; while it is pending
\* the control is disabled with the busy label; a failed fetch gives an alert
\* and no download, a successful one a download; in every outcome the control
\* ends enabled with its original label.
C30_OneFetchThenRestored == []C30_Inv /\ [][C30_Step]_vars

\* A fetch ended with a response that was not OK.
C30_Witness ==
    /\ ev.type = "fetchSettled"
    /\ ev.field = "notOk"
    /\ alertCount = 1
    /\ downloadCount = 0
    /\ ~downloadDisabled

\* The events that only listeners of the menu handle, and the one that only
\* a listener of the lightbox handles.
MenuOnlyEvents == {"hamburgerClick", "navLinkClick", "outsideClick", "resize"}
LightboxOnlyEvents == {"keyEscape"}

\* A step of one feature leaves a scroll lock in place while the other
\* feature, which set it or relies on it, is still open.
C32_Step ==
    /\ (ev'.type \in MenuOnlyEvents /\ lightboxDisplay = "flex"
            /\ bodyOverflow = "hidden")
        => bodyOverflow' = "hidden"
    /\ (ev'.type \in LightboxOnlyEvents /\ menuActive /\ bodyOverflow = "hidden")
        => bodyOverflow' = "hidden"

\* C32: the body scroll lock has a single writer: no event that the
\* listeners of one feature handle clears the scroll lock that the other
\* feature holds.
C32_SingleWriterOfScrollLock == [][C32_Step]_vars

\* C36: at most one run of initCursor takes effect per page, so that at most
\* one frame loop runs and the pointer-move and hover listeners are
\* registered at most once.
C36_CursorSetUpOnce == cursorInits <= 1 /\ styleElements <= 1

\* C37: on the loaded page the body scroll is locked exactly when the menu
\* or the lightbox is open.
C37_LockedIffMenuOrLightboxOpen ==
    phase = "ready" =>
        ((bodyOverflow = "hidden") = (menuActive \/ lightboxDisplay = "flex"))

\* An Escape key press that finds the overlay not shown changes nothing of
\* the menu, the lightbox and the scroll lock.
C38_Step ==
    (ev'.type = "keyEscape" /\ lightboxDisplay # "flex") => UNCHANGED pageVars

\* C38: an Escape key press while the lightbox is not open leaves the
\* overlay hidden, the body scroll lock as it was and the menu as it was.
C38_EscapeWhileClosedIsNoOp == [][C38_Step]_vars

\* Escape was pressed with the menu open, the scroll locked and a lightbox
\* that was never opened.
C38_Witness ==
    /\ ev.type = "keyEscape"
    /\ ~ev.ok
    /\ lightboxDisplay = ""
    /\ menuActive
    /\ bodyOverflow = "hidden"

SubmitsInFlight == {i \in 1..Len(timers) : timers[i].kind = "submit"}

\* C39: at most one simulated submission is in flight, and no submission in
\* flight holds the busy label as the label to restore.
C39_OneSubmissionInFlight ==
    /\ Cardinality(SubmitsInFlight) <= 1
    /\ \A i \in SubmitsInFlight : timers[i].originalText # BusyLabel

\* C40: when a submission has completed and the form has been reset, no
\* field shows an inline error or the error border.
C40_NoErrorsAfterReset ==
    ev.type = "submitDone" =>
        \A f \in Fields : errorDivs[f] = <<>> /\ borderColor[f] = ""

\* What the claim expects of an arrow key pressed with the focus on `active`.
C31_Expected(active, key) ==
    IF active \in NavLinks /\ key = "ArrowDown" /\ active.index < NavLinkCount - 1
    THEN [prevented |-> TRUE, focus |-> NavLink(active.index + 1)]
    ELSE IF active \in NavLinks /\ key = "ArrowUp" /\ active.index > 0
    THEN [prevented |-> TRUE, focus |-> NavLink(active.index - 1)]
    ELSE [prevented |-> FALSE, focus |-> active]

C31_Step ==
    ev'.type = "keydown" =>
        /\ focus' = C31_Expected(focus, ev'.field).focus
        /\ ev'.defaultPrevented = C31_Expected(focus, ev'.field).prevented

\* C31: with the focus on one of the N in-page nav links ArrowDown and
\* ArrowUp move it to the next and the previous link and suppress the
\* default, except at the ends, where nothing happens; with the focus
\* anywhere else an arrow key neither moves the focus nor suppresses the
\* default.
C31_ArrowKeysMoveWithinNavLinks == [][C31_Step]_vars

\* C33: after every scroll event and after the load event, on a page with a
\* header, the nav bar has the class 'scrolled' exactly when the scroll
\* offset is greater than the header's height less 50.
C33_ScrolledIffPastHeader ==
    (ev.type \in {"scroll", "load"} /\ hasHeader) =>
        (navScrolled <=> scrollY > headerHeight - 50)

\* A scroll event has brought the page to the threshold itself.
C33_Witness ==
    /\ ev.type = "scroll"
    /\ hasHeader
    /\ scrollY = headerHeight - 50
    /\ scrollY > 0
    /\ ~navScrolled

C34_Step ==
    ev'.type = "anchorClick" =>
        LET t == ev'.field[2] IN
        /\ ev'.defaultPrevented
        /\ scrollY' = scrollY
        /\ IF t \in 1..MaxSections
           THEN scrollTarget' = <<sections[t].top - 80>>
           ELSE scrollTarget' = scrollTarget

\* C34: a click on an in-page anchor always suppresses the default; when the
\* target exists a scroll to its offsetTop less 80 is requested, and when it
\* does not exist no scroll is requested and the offset stays.
C34_AnchorClickScrollsToTarget == [][C34_Step]_vars

\* An anchor without a target was clicked while no scroll was in progress.
C34_Witness ==
    /\ ev.type = "anchorClick"
    /\ ev.field[2] = NoTarget
    /\ ev.defaultPrevented
    /\ scrollTarget = <<>>
    /\ scrollY > 0

\* At most one invocation is pending; a pending one is due the wait after
\* the last call and holds its arguments; with none pending the last call
\* has had its invocation.
C35_Inv ==
    /\ Len(debTimers) <= 1
    /\ \A i \in 1..Len(debTimers) :
        /\ debTimers[i].args = debCalls[Len(debCalls)]
        /\ debTimers[i].left = MaxWaitTicks - debSince
    /\ Len(debInvoked) <= Len(debCalls)
    /\ (debTimers = <<>> /\ debCalls # <<>>) =>
        (debInvoked # <<>> /\ debInvoked[Len(debInvoked)] = debCalls[Len(debCalls)])

\* An invocation comes the wait after the last call, with its arguments; a
\* call that follows the call before it by more than the wait finds that
\* call invoked, one that follows by less finds it not invoked and cancels it.
C35_Step ==
    /\ ev'.type = "later" =>
        /\ debSince = MaxWaitTicks
        /\ debInvoked' = Append(debInvoked, debCalls[Len(debCalls)])
    /\ ev'.type = "debouncedCall" =>
        /\ Len(debTimers') = 1
        /\ debTimers'[1].left = MaxWaitTicks
        /\ debInvoked' = debInvoked
        /\ (debCalls # <<>> /\ debSince > MaxWaitTicks) => debTimers = <<>>
        /\ (debCalls # <<>> /\ debSince < MaxWaitTicks) => debTimers # <<>>
    /\ ev'.type = "debounceTick" => debInvoked' = debInvoked

\* C35: every call of the debounced function cancels the pending invocation
\* and schedules one the wait later, so that at most one is pending; a burst
\* of calls gives one invocation, the wait after the last call and with its
\* arguments; calls more than the wait apart give an invocation each.
C35_DebounceTrailing == []C35_Inv /\ [][C35_Step]_vars

\* A burst of three calls gave one invocation, with the arguments of the
\* third, and a later call gave its own.
C35_Witness ==
    /\ debCalls = <<"a", "a", "b", "a">>
    /\ debInvoked = <<"b", "a">>
    /\ debTimers = <<>>

====
